---- MODULE Spec2Model ----
(***************************************************************************)
(* Model of the stored-procedure call sites of the blog router             *)
(* (getBlogAnalytics, getTopPostsByCategory): the raw query, the Zod       *)
(* validation of the driver's rows, the bigint -> number transformation    *)
(* and the tRPC output validation.                                         *)
(*                                                                         *)
(* JavaScript values are records of one shape, [t, chars, bits, frac, nan, *)
(* hasToNumber]:                                                           *)
(*   t      the runtime type ("undefined", "null", "string", "bigint",     *)
(*          "number", "date", "object")                                    *)
(*   chars  the characters of a string                                     *)
(*   bits   the binary digits, most significant first and without leading  *)
(*          zeros, of the integer part of a bigint or number, of a date's  *)
(*          time value, or of what an object's toNumber() returns          *)
(*   frac   the decimal digits after the point, without trailing zeros     *)
(*   nan    the number is NaN / the date is invalid / toNumber() gives NaN *)
(*   hasToNumber  the object has a toNumber property                       *)
(*                                                                         *)
(* Integers are kept as bit sequences because the values of interest       *)
(* (2^53 and above) do not fit the model checker's integers.               *)
(***************************************************************************)
EXTENDS Integers, Sequences, FiniteSets, TLC

\* ------------------------------------------------------------------ bounds
\* longest batch of rows the database returns in one round trip
MaxRows == 2
\* how many rows of a batch may deviate from a well-formed row
MaxDeviantRows == 1
\* how many posts, apart from the seeded and the bulk tables, the tables hold
\* that a stored procedure is run on
MaxPosts == 2
\* how many populateDatabase / clearDatabase invocations are in flight at once
MaxClients == 2
\* ------------------------------------------------------- program constants
\* significant binary digits of an IEEE-754 double, the JavaScript number
MantissaBits == 53
\* binary digits of the largest PostgreSQL BIGINT, 2^63 - 1
BigintBits == 63

\* ---------------------------------------------------------------- values
JS(t, chars, bits, frac, nan, has) ==
  [t |-> t, chars |-> chars, bits |-> bits, frac |-> frac, nan |-> nan,
   hasToNumber |-> has]

Undefined == JS("undefined", <<>>, <<>>, <<>>, FALSE, FALSE)
Null == JS("null", <<>>, <<>>, <<>>, FALSE, FALSE)
Str(chars) == JS("string", chars, <<>>, <<>>, FALSE, FALSE)
BigInt(bits) == JS("bigint", <<>>, bits, <<>>, FALSE, FALSE)
Num(bits, frac) == JS("number", <<>>, bits, frac, FALSE, FALSE)
NaN == JS("number", <<>>, <<>>, <<>>, TRUE, FALSE)
Date(bits) == JS("date", <<>>, bits, <<>>, FALSE, FALSE)
InvalidDate == JS("date", <<>>, <<>>, <<>>, TRUE, FALSE)
\* a Decimal-like object whose toNumber() returns the number (bits, frac, nan)
DecimalObj(bits, frac, nan) == JS("object", <<>>, bits, frac, nan, TRUE)
PlainObj == JS("object", <<>>, <<>>, <<>>, FALSE, FALSE)

\* ------------------------------------------------------- binary arithmetic
Zeros(n) == [i \in 1..n |-> 0]
Ones(n) == [i \in 1..n |-> 1]

RECURSIVE NatToBits(_)
NatToBits(n) == IF n = 0 THEN <<>> ELSE Append(NatToBits(n \div 2), n % 2)

\* bits + 1
RECURSIVE BitsInc(_)
BitsInc(bits) ==
  IF bits = <<>> THEN <<1>>
  ELSE IF bits[Len(bits)] = 0
       THEN Append(SubSeq(bits, 1, Len(bits) - 1), 1)
       ELSE Append(BitsInc(SubSeq(bits, 1, Len(bits) - 1)), 0)

\* a < b for canonical bit sequences
RECURSIVE BitsLess(_, _)
BitsLess(a, b) ==
  IF Len(a) # Len(b) THEN Len(a) < Len(b)
  ELSE IF a = <<>> THEN FALSE
  ELSE IF a[1] # b[1] THEN a[1] < b[1]
  ELSE BitsLess(Tail(a), Tail(b))

\* Number.MAX_SAFE_INTEGER = 2^53 - 1
MaxSafe == Ones(MantissaBits)

\* ----------------------------------------------------- Number(<bigint>)
\* Number(v) of a BigInt v: the double nearest to v, ties to even.  Exact
\* up to 53 significant bits; above, the low bits are rounded away.
RoundToBits(bits, m) ==
  IF Len(bits) <= m THEN bits
  ELSE IF bits[m + 1] = 1 /\ (bits[m] = 1 \/ \E i \in (m + 2)..Len(bits) : bits[i] = 1)
       THEN BitsInc(SubSeq(bits, 1, m)) \o Zeros(Len(bits) - m)
       ELSE SubSeq(bits, 1, m) \o Zeros(Len(bits) - m)

\* (variant: the value goes through a single-precision float, 24 bits)
NumberOfBigIntSingle(bits) == RoundToBits(bits, 24)

NumberOfBigInt(bits) == RoundToBits(bits, MantissaBits)

\* ----------------------------------------------------- Number(<string>)
Digits == <<"0", "1", "2", "3", "4", "5", "6", "7", "8", "9">>
IsDigit(c) == \E d \in 1..10 : Digits[d] = c
DigitVal(c) == (CHOOSE d \in 1..10 : Digits[d] = c) - 1

RECURSIVE TrimLeft(_)
TrimLeft(s) == IF s # <<>> /\ s[1] = " " THEN TrimLeft(Tail(s)) ELSE s
RECURSIVE TrimRight(_)
TrimRight(s) ==
  IF s # <<>> /\ s[Len(s)] = " " THEN TrimRight(SubSeq(s, 1, Len(s) - 1)) ELSE s

RECURSIVE DigitsToNat(_)
DigitsToNat(s) ==
  IF s = <<>> THEN 0
  ELSE 10 * DigitsToNat(SubSeq(s, 1, Len(s) - 1)) + DigitVal(s[Len(s)])

RECURSIVE StripTrailingZeros(_)
StripTrailingZeros(s) ==
  IF s # <<>> /\ s[Len(s)] = "0"
  THEN StripTrailingZeros(SubSeq(s, 1, Len(s) - 1)) ELSE s

\* StringToNumber of ECMAScript, for text over digits, ".", " " and letters:
\* white space is trimmed, the empty text is 0, an unsigned decimal literal
\* is its value and anything else is NaN.
StringToNumber(chars) ==
  LET s == TrimRight(TrimLeft(chars))
      dots == {i \in 1..Len(s) : s[i] = "."}
      dot == IF dots = {} THEN Len(s) + 1 ELSE CHOOSE i \in dots : TRUE
      ip == SubSeq(s, 1, dot - 1)
      fp == SubSeq(s, dot + 1, Len(s))
      wellFormed == /\ Cardinality(dots) <= 1
                    /\ \A i \in 1..Len(ip) : IsDigit(ip[i])
                    /\ \A i \in 1..Len(fp) : IsDigit(fp[i])
                    /\ Len(ip) + Len(fp) > 0
  IN IF s = <<>> THEN Num(<<>>, <<>>)
     ELSE IF wellFormed THEN Num(NatToBits(DigitsToNat(ip)), StripTrailingZeros(fp))
     ELSE NaN

\* ------------------------------------------------------------- Number(v)
\* The Number(...) call of the transforms and of the avg_views_per_post
\* coercion, by the runtime type of its argument.
NumberCall(v) ==
  CASE v.t = "undefined" -> NaN
    [] v.t = "null" -> Num(<<>>, <<>>)
    [] v.t = "string" -> StringToNumber(v.chars)
    [] v.t = "bigint" -> Num(NumberOfBigInt(v.bits), <<>>)
    [] v.t = "number" -> v
    [] v.t = "date" -> IF v.nan THEN NaN ELSE Num(v.bits, <<>>)
    [] OTHER -> NaN

\* JavaScript truthiness (the `val &&` of the coercion)
Truthy(v) ==
  CASE v.t \in {"undefined", "null"} -> FALSE
    [] v.t = "string" -> v.chars # <<>>
    [] v.t = "bigint" -> v.bits # <<>>
    [] v.t = "number" -> ~v.nan /\ (v.bits # <<>> \/ v.frac # <<>>)
    [] OTHER -> TRUE

\* what val.toNumber() returns
ToNumberOf(v) == IF v.nan THEN NaN ELSE Num(v.bits, v.frac)

\* (variant: the coercion without its Decimal branch)
AvgTransformNoDecimal(val) == NumberCall(val)

\* the transform of BlogAnalyticsRawSchema.avg_views_per_post
AvgTransform(val) ==
  IF Truthy(val) /\ val.t \in {"object", "date"} /\ val.hasToNumber
  THEN ToNumberOf(val)
  ELSE NumberCall(val)

\* ---------------------------------------------------------------- schemas
\* Zod types per column: "string", "bigint", "number", "date", their
\* .nullable() forms and "any_transform" (z.any().transform(...)).
BlogAnalyticsRawSchema ==
  [author_name |-> "string", author_email |-> "string",
   total_posts |-> "bigint", published_posts |-> "bigint",
   total_views |-> "bigint", avg_views_per_post |-> "any_transform",
   most_popular_post_title |-> "nullable_string",
   most_popular_post_views |-> "nullable_number",
   categories_used |-> "bigint", total_tags |-> "bigint",
   first_post_date |-> "nullable_date", last_post_date |-> "nullable_date"]

TopPostRawSchema ==
  [post_title |-> "string", author_name |-> "string", view_count |-> "number",
   published_at |-> "date", tag_count |-> "bigint"]

BlogAnalyticsOutputSchema ==
  [author_name |-> "string", author_email |-> "string",
   total_posts |-> "number", published_posts |-> "number",
   total_views |-> "number", avg_views_per_post |-> "number",
   most_popular_post_title |-> "nullable_string",
   most_popular_post_views |-> "nullable_number",
   categories_used |-> "number", total_tags |-> "number",
   first_post_date |-> "nullable_date", last_post_date |-> "nullable_date"]

TopPostOutputSchema ==
  [post_title |-> "string", author_name |-> "string", view_count |-> "number",
   published_at |-> "date", tag_count |-> "number"]

Procs == {"getBlogAnalytics", "getTopPostsByCategory"}
RawSchema(p) ==
  IF p = "getBlogAnalytics" THEN BlogAnalyticsRawSchema ELSE TopPostRawSchema
OutputSchema(p) ==
  IF p = "getBlogAnalytics" THEN BlogAnalyticsOutputSchema ELSE TopPostOutputSchema

\* ------------------------------------------------------------------- Zod
\* row[c] of a JavaScript object: undefined when the key is absent
Get(row, c) == IF c \in DOMAIN row THEN row[c] ELSE Undefined

\* whether a value passes the type check of a Zod type
ZodAccepts(type, v) ==
  CASE type = "string" -> v.t = "string"
    [] type = "bigint" -> v.t = "bigint"
    [] type = "number" -> v.t = "number" /\ ~v.nan
    [] type = "date" -> v.t = "date" /\ ~v.nan
    [] type = "nullable_string" -> v.t \in {"null", "string"}
    [] type = "nullable_number" -> v.t = "null" \/ (v.t = "number" /\ ~v.nan)
    [] type = "nullable_date" -> v.t = "null" \/ (v.t = "date" /\ ~v.nan)
    [] type = "any_transform" -> TRUE

\* the value a Zod type produces for a value it accepts
ZodValue(type, v) == IF type = "any_transform" THEN AvgTransform(v) ELSE v

\* z.object(schema) applied to one row: the declared keys that fail, and the
\* parsed object, which holds the declared keys only (others are stripped).
ZodObjectIssues(schema, row) ==
  {c \in DOMAIN schema : ~ZodAccepts(schema[c], Get(row, c))}

\* (variant: z.object(...).passthrough(), undeclared keys are kept)
ZodObjectValuePassthrough(schema, row) ==
  [c \in DOMAIN schema \cup DOMAIN row |->
    IF c \in DOMAIN schema THEN ZodValue(schema[c], Get(row, c)) ELSE row[c]]

ZodObjectValue(schema, row) ==
  [c \in DOMAIN schema |-> ZodValue(schema[c], Get(row, c))]

\* z.array(z.object(schema)).parse(rows): the parsed rows, or the issues
\* (row index, column) of a ZodError.
ZodArrayIssues(schema, rows) ==
  UNION {{i} \X ZodObjectIssues(schema, rows[i]) : i \in 1..Len(rows)}

ZodArrayValue(schema, rows) ==
  [i \in 1..Len(rows) |-> ZodObjectValue(schema, rows[i])]

\* ------------------------------------------------------------ transforms
\* (variant: `?? 0` / `?? ''` defaults on the nullable columns)
transformBlogAnalyticsDefaulting(raw) ==
  [author_name |-> raw.author_name,
   author_email |-> raw.author_email,
   total_posts |-> NumberCall(raw.total_posts),
   published_posts |-> NumberCall(raw.published_posts),
   total_views |-> NumberCall(raw.total_views),
   avg_views_per_post |-> raw.avg_views_per_post,
   most_popular_post_title |->
     IF raw.most_popular_post_title.t = "null" THEN Str(<<>>)
     ELSE raw.most_popular_post_title,
   most_popular_post_views |->
     IF raw.most_popular_post_views.t = "null" THEN Num(<<>>, <<>>)
     ELSE raw.most_popular_post_views,
   categories_used |-> NumberCall(raw.categories_used),
   total_tags |-> NumberCall(raw.total_tags),
   first_post_date |-> raw.first_post_date,
   last_post_date |-> raw.last_post_date]

transformBlogAnalytics(raw) ==
  [author_name |-> raw.author_name,
   author_email |-> raw.author_email,
   total_posts |-> NumberCall(raw.total_posts),
   published_posts |-> NumberCall(raw.published_posts),
   total_views |-> NumberCall(raw.total_views),
   avg_views_per_post |-> raw.avg_views_per_post,
   most_popular_post_title |-> raw.most_popular_post_title,
   most_popular_post_views |-> raw.most_popular_post_views,
   categories_used |-> NumberCall(raw.categories_used),
   total_tags |-> NumberCall(raw.total_tags),
   first_post_date |-> raw.first_post_date,
   last_post_date |-> raw.last_post_date]

transformTopPost(raw) ==
  [c \in DOMAIN raw |-> IF c = "tag_count" THEN NumberCall(raw[c]) ELSE raw[c]]

Transform(p, raw) ==
  IF p = "getBlogAnalytics" THEN transformBlogAnalytics(raw) ELSE transformTopPost(raw)

\* ---------------------------------------------------------------- errors
\* An error object: its class, its message, the issues (row index, column)
\* of a ZodError, and its cause, the name of the error it wraps ("" if none).
Err(name, message, issues, cause) ==
  [name |-> name, message |-> message, issues |-> issues, cause |-> cause]
NoError == Err("", "", {}, "")

\* how the stored-procedure call can fail in the database
DbFailures ==
  {"procedure missing", "wrong arity", "constraint violation", "connection failure"}
PrismaError(kind) == Err("PrismaClientKnownRequestError", kind, {}, "")
ZodError(issues) == Err("ZodError", "invalid rows", issues, "")

FailureMessage(p) ==
  IF p = "getBlogAnalytics" THEN "Failed to fetch blog analytics"
  ELSE "Failed to fetch top posts"

\* ------------------------------------------------------------ the handler
\* Outcome of the handler from the point where $queryRaw settles: what it
\* returns or throws, what it writes to console.error, and the queries it
\* issues after the first.
Outcome(status, rows, error, logged, requery) ==
  [status |-> status, rows |-> rows, error |-> error, logged |-> logged,
   requery |-> requery]

\* (variant: the catch block issues the query again)
CatchBlockRetrying(p, error) ==
  Outcome("error", <<>>, Err("Error", FailureMessage(p), {}, ""), error, TRUE)

\* catch (error) { console.error(..., error); throw new Error('Failed ...') }
CatchBlock(p, error) ==
  Outcome("error", <<>>, Err("Error", FailureMessage(p), {}, ""), error, FALSE)

\* .output(z.array(OutputSchema)): tRPC parses what the resolver returned and
\* answers with the parsed value, or fails with INTERNAL_SERVER_ERROR.
OutputValidation(p, rows) ==
  IF ZodArrayIssues(OutputSchema(p), rows) = {}
  THEN Outcome("ok", ZodArrayValue(OutputSchema(p), rows), NoError, NoError, FALSE)
  ELSE Outcome("error", <<>>,
               Err("TRPCError", "Output validation failed", {}, "ZodError"),
               NoError, FALSE)

\* (variant: rows are validated one by one and the failing ones left out)
ResolveDroppingBadRows(p, resp) ==
  IF ~resp.ok THEN CatchBlock(p, resp.error)
  ELSE LET Passes(r) == ZodObjectIssues(RawSchema(p), r) = {}
           kept == SelectSeq(resp.rows, Passes)
       IN OutputValidation(p,
            [i \in 1..Len(kept) |-> Transform(p, ZodObjectValue(RawSchema(p), kept[i]))])

\* try { parse; return map(transform) } catch ...
Resolve(p, resp) ==
  IF ~resp.ok THEN CatchBlock(p, resp.error)
  ELSE IF ZodArrayIssues(RawSchema(p), resp.rows) # {}
  THEN CatchBlock(p, ZodError(ZodArrayIssues(RawSchema(p), resp.rows)))
  ELSE OutputValidation(p,
         [i \in 1..Len(resp.rows) |->
           Transform(p, ZodObjectValue(RawSchema(p), resp.rows[i]))])

\* --------------------------------------------------------- request inputs
Chars(str) ==
  CASE str = "technology" -> <<"t", "e", "c", "h">>
    [] str = "quote" -> <<"'", ")", ";">>
    [] str = "Alice" -> <<"A", "l">>
    [] str = "alice@" -> <<"a", "@">>
    [] str = "Bob" -> <<"B">>
    [] str = "bob@" -> <<"b", "@">>
    [] str = "Title" -> <<"T">>
    [] str = "1550.00" -> <<"1", "5", "5", "0", ".", "0", "0">>
    [] str = " 7.50 " -> <<" ", "7", ".", "5", "0", " ">>
    [] str = "abc" -> <<"a", "b", "c">>
    [] OTHER -> <<>>

NoInput == [c \in {} |-> Undefined]
Inputs(p) ==
  IF p = "getBlogAnalytics"
  THEN {NoInput, [category |-> Str(Chars("technology"))]}
  ELSE {NoInput,
        [category |-> Str(Chars("technology"))],
        [category |-> Str(Chars("quote"))],
        [category |-> Num(<<1>>, <<>>)],
        [category |-> Str(Chars("technology")), limit |-> Num(<<1>>, <<>>)]}

\* .input(z.object({ category: z.string() })) of getTopPostsByCategory;
\* getBlogAnalytics declares no input parser.
InputValidOptional(p, in) ==
  (p = "getTopPostsByCategory" /\ "category" \in DOMAIN in) =>
    ZodObjectIssues([category |-> "string"], in) = {}

InputValid(p, in) ==
  p = "getTopPostsByCategory" => ZodObjectIssues([category |-> "string"], in) = {}

\* the tagged template of $queryRaw: the text as the template's literal
\* pieces, one placeholder between two pieces, and the interpolated values
\* bound to the placeholders
QueryOfConcatenated(p, in) ==
  IF p = "getBlogAnalytics"
  THEN [text |-> <<"SELECT * FROM get_blog_analytics()">>, params |-> <<>>]
  ELSE [text |-> <<"SELECT * FROM get_top_posts_by_category('">>
                   \o in.category.chars \o <<"')">>,
        params |-> <<>>]

QueryOf(p, in) ==
  IF p = "getBlogAnalytics"
  THEN [text |-> <<"SELECT * FROM get_blog_analytics()">>, params |-> <<>>]
  ELSE [text |-> <<"SELECT * FROM get_top_posts_by_category(", ")">>,
        params |-> <<in.category>>]

\* ------------------------------------------------ what the database returns
Two53 == <<1>> \o Zeros(MantissaBits)
MaxBigint == Ones(BigintBits)

\* values the driver may hand over for a column of the given Zod type: the
\* declared kind at its boundary values, null, and values of other kinds
RawValues(type) ==
  CASE type = "string" -> {Null, Str(<<>>), Num(NatToBits(1550), <<>>)}
    [] type = "bigint" ->
         {Null, BigInt(MaxSafe), BigInt(Two53), BigInt(BitsInc(Two53)),
          BigInt(MaxBigint), Num(NatToBits(1550), <<>>)}
    [] type = "number" -> {Null, NaN, Num(<<>>, <<>>), BigInt(<<1>>)}
    [] type = "date" -> {Null, InvalidDate, Date(<<1, 0, 1>>), Str(Chars("abc"))}
    [] type = "nullable_string" -> {Null, Str(<<>>), Num(<<>>, <<>>)}
    [] type = "nullable_number" -> {Null, NaN, Num(<<>>, <<>>)}
    [] type = "nullable_date" -> {Null, InvalidDate, Date(<<1, 0, 1>>)}
    [] type = "any_transform" ->
         {Null, Str(<<>>), Str(Chars("1550.00")), Str(Chars(" 7.50 ")), Str(Chars("abc")),
          Num(NatToBits(1550), <<>>), NaN,
          DecimalObj(NatToBits(1550), <<>>, FALSE), DecimalObj(<<>>, <<>>, TRUE),
          PlainObj}

\* rows as get_blog_analytics / get_top_posts_by_category produce them
GoodRows(p) ==
  IF p = "getBlogAnalytics"
  THEN {[author_name |-> Str(Chars("Alice")), author_email |-> Str(Chars("alice@")),
         total_posts |-> BigInt(<<1, 0>>), published_posts |-> BigInt(<<1>>),
         total_views |-> BigInt(NatToBits(3100)),
         avg_views_per_post |-> DecimalObj(NatToBits(1550), <<>>, FALSE),
         most_popular_post_title |-> Str(Chars("Title")),
         most_popular_post_views |-> Num(NatToBits(1600), <<>>),
         categories_used |-> BigInt(<<1>>), total_tags |-> BigInt(<<1, 1>>),
         first_post_date |-> Date(<<1>>), last_post_date |-> Date(<<1, 0>>)],
        [author_name |-> Str(Chars("Bob")), author_email |-> Str(Chars("bob@")),
         total_posts |-> BigInt(<<>>), published_posts |-> BigInt(<<>>),
         total_views |-> BigInt(<<>>),
         avg_views_per_post |-> DecimalObj(<<>>, <<>>, FALSE),
         most_popular_post_title |-> Null, most_popular_post_views |-> Null,
         categories_used |-> BigInt(<<>>), total_tags |-> BigInt(<<>>),
         first_post_date |-> Null, last_post_date |-> Null]}
  ELSE {[post_title |-> Str(Chars("Title")), author_name |-> Str(Chars("Alice")),
         view_count |-> Num(NatToBits(1600), <<>>), published_at |-> Date(<<1, 0>>),
         tag_count |-> BigInt(<<1, 1>>)]}

\* a column the procedures' result tables do not declare
ExtraColumn == "id"

\* How a row can differ from a well-formed row in one column: another
\* value, the column missing, or an undeclared column added.
Deviations(p) ==
  UNION {{"set"} \X {c} \X RawValues(RawSchema(p)[c]) : c \in DOMAIN RawSchema(p)}
  \cup ({"drop"} \X (DOMAIN RawSchema(p)) \X {Undefined})
  \cup ({"add"} \X {ExtraColumn} \X {Num(<<1, 1, 1>>, <<>>)})

Deviate(g, dev) ==
  CASE dev[1] = "set" -> [c \in DOMAIN g |-> IF c = dev[2] THEN dev[3] ELSE g[c]]
    [] dev[1] = "drop" -> [c \in DOMAIN g \ {dev[2]} |-> g[c]]
    [] dev[1] = "add" -> [c \in DOMAIN g \cup {dev[2]} |->
                           IF c = dev[2] THEN dev[3] ELSE g[c]]

\* --------------------------------------------------------------- the state
VARIABLES
  pc,        \* "idle", "awaiting" (the $queryRaw promise is pending), "done"
  proc,      \* the procedure invoked
  input,     \* the request's input object
  queries,   \* the queries this invocation has sent to the database
  response,  \* what the database answered to the last query
  result,    \* what the caller receives: status, rows, error
  logged     \* what the invocation wrote to console.error

handlerVars == <<pc, proc, input, queries, response, result, logged>>

\* the database and the invocations that work on its tables
VARIABLES
  db,        \* the committed rows of authors, categories, tags, posts, post_tags
  lastRead,  \* what the latest database step returned to a read procedure
  clients    \* the populateDatabase / clearDatabase invocations in flight

dbVars == <<db, lastRead, clients>>

\* the facts table, the invocation of the facts router and the environment
VARIABLES
  facts,     \* the rows of the facts table
  factsCall, \* the facts.* invocation in flight
  env        \* the keys the process was started with

factsVars == <<facts, factsCall, env>>

vars ==
  <<pc, proc, input, queries, response, result, logged, db, lastRead, clients,
    facts, factsCall, env>>

\* SQL NULL and a non-null value of a nullable column
SqlNull == <<>>
NotNull(v) == <<v>>

EmptyDb ==
  [authors |-> {}, categories |-> {}, tags |-> {}, posts |-> {}, postTags |-> {}]

NoRead == [proc |-> "none", arg |-> "", rows |-> <<>>]

\* a client that has no invocation in flight.  op: the mutation invoked; at:
\* the awaited call it is at and k its position in the deletes, the posts or
\* the counts; counts: the counts read so far; pending: the rows its open
\* transaction has deleted; undisturbed: no other mutation started since
\* this one did; again: it started on the rows a populateDatabase left
IdleClient ==
  [op |-> "none", at |-> "idle", k |-> 0, counts |-> <<>>, pending |-> EmptyDb,
   undisturbed |-> TRUE, again |-> FALSE]

\* no table holds a row and no invocation works on the tables
DbIdle ==
  /\ db = EmptyDb
  /\ lastRead = NoRead
  /\ clients = [c \in 1..MaxClients |-> IdleClient]

\* the environment of a deployment that sets both keys
BothKeys == [OPEN_AI_KEY |-> Str(<<"s", "k">>), OPENAI_API_KEY |-> Str(<<"s", "k">>)]

\* a facts router with no invocation in flight.  op: the procedure invoked;
\* at: the awaited call it is at and k its position in dummyFacts; sent:
\* the input the caller sent and in: the parsed input; embedding: what
\* generateEmbedding returned last; requests and statements: the embedding
\* requests and the database statements issued; owner: the tag of the ids
\* it generates; out: what it returns
NoFactsCall ==
  [op |-> "none", at |-> "idle", k |-> 0, sent |-> [c \in {} |-> ""],
   in |-> [query |-> "", limit |-> 0],
   embedding |-> <<>>, requests |-> 0, statements |-> 0, owner |-> 0,
   out |-> [count |-> 0, results |-> <<>>, usingRealEmbeddings |-> FALSE]]

\* no fact is stored and no facts.* invocation is in flight
FactsIdle ==
  /\ facts = {}
  /\ factsCall = NoFactsCall
  /\ env = BothKeys

NoResponse == [ok |-> TRUE, rows |-> <<>>, error |-> NoError]
NoResult == [status |-> "none", rows |-> <<>>, error |-> NoError]

Init ==
  /\ pc = "idle"
  /\ proc = "getBlogAnalytics"
  /\ input = NoInput
  /\ queries = <<>>
  /\ response = NoResponse
  /\ result = NoResult
  /\ logged = NoError
  /\ DbIdle
  /\ FactsIdle

\* what the resolver receives as input: the value its input parser produced,
\* nothing when the procedure declares no parser
ParsedInput(p, in) ==
  IF p = "getTopPostsByCategory" /\ InputValid(p, in)
  THEN ZodObjectValue([category |-> "string"], in)
  ELSE NoInput

\* A request arrives.  tRPC validates the input; the resolver then issues
\* its $queryRaw and awaits it.
Call(p, in) ==
  /\ pc = "idle"
  /\ proc' = p
  /\ input' = ParsedInput(p, in)
  /\ response' = NoResponse
  /\ logged' = NoError
  /\ IF InputValid(p, in)
     THEN /\ pc' = "awaiting"
          /\ queries' = <<QueryOf(p, ParsedInput(p, in))>>
          /\ result' = NoResult
     ELSE /\ pc' = "done"
          /\ queries' = <<>>
          /\ result' = [status |-> "error", rows |-> <<>>,
                        error |-> Err("TRPCError", "BAD_REQUEST", {}, "ZodError")]
  /\ UNCHANGED <<dbVars, factsVars>>

\* The awaited query settles with resp and the resolver runs to its end.
Settle(resp) ==
  \E o \in {Resolve(proc, resp)} :
  /\ response' = resp
  /\ logged' = o.logged
  /\ IF o.requery
     THEN /\ pc' = "awaiting"
          /\ queries' = Append(queries, QueryOf(proc, input))
          /\ result' = result
     ELSE /\ pc' = "done"
          /\ queries' = queries
          /\ result' = [status |-> o.status, rows |-> o.rows, error |-> o.error]
  /\ UNCHANGED <<proc, input>>
  /\ UNCHANGED <<dbVars, factsVars>>

\* The database returns a batch of rows.
DbReturns ==
  /\ pc = "awaiting"
  /\ \E n \in 0..MaxRows :
       \E g \in [1..n -> GoodRows(proc)] :
         \E D \in {S \in SUBSET (1..n) : Cardinality(S) <= MaxDeviantRows} :
           \E dev \in [D -> Deviations(proc)] :
             Settle([ok |-> TRUE,
                     rows |-> [i \in 1..n |->
                                IF i \in D THEN Deviate(g[i], dev[i]) ELSE g[i]],
                     error |-> NoError])

\* The stored-procedure call fails in the database.
DbFails ==
  /\ pc = "awaiting"
  /\ \E k \in DbFailures : Settle([ok |-> FALSE, rows |-> <<>>, error |-> PrismaError(k)])

Invoke == \E p \in Procs : \E in \in Inputs(p) : Call(p, in)

\* The caller has received the result; the invocation leaves nothing behind.
Return ==
  /\ pc = "done"
  /\ pc' = "idle"
  /\ proc' = "getBlogAnalytics"
  /\ input' = NoInput
  /\ queries' = <<>>
  /\ response' = NoResponse
  /\ result' = NoResult
  /\ logged' = NoError
  /\ UNCHANGED <<dbVars, factsVars>>

Next == Invoke \/ DbReturns \/ DbFails \/ Return

Spec == Init /\ [][Next]_vars

\* ================================================================ claims
\* the resolver has run to its end on a batch of rows the database returned
SettledOnRows == pc = "done" /\ queries # <<>> /\ response.ok
RawRow(i) == response.rows[i]
RowFailsRawSchema(i) == ZodObjectIssues(RawSchema(proc), RawRow(i)) # {}

\* columns the output shapes declare non-optional / optional / bigint
RequiredColumns(p) ==
  IF p = "getBlogAnalytics"
  THEN {"author_name", "author_email", "total_posts", "published_posts",
        "total_views", "avg_views_per_post", "categories_used", "total_tags"}
  ELSE {"post_title", "author_name", "view_count", "published_at", "tag_count"}
OptionalColumns ==
  {"most_popular_post_title", "most_popular_post_views", "first_post_date",
   "last_post_date"}
BigintColumns(p) ==
  IF p = "getBlogAnalytics"
  THEN {"total_posts", "published_posts", "total_views", "categories_used", "total_tags"}
  ELSE {"tag_count"}

\* C1: validation is all-or-nothing per call.  When at least one row of the
\* batch fails the raw schema the invocation fails and returns no row; a
\* successful invocation returns one row per raw row.
C1_AllOrNothing ==
  SettledOnRows =>
    /\ (\E i \in 1..Len(response.rows) : RowFailsRawSchema(i)) =>
         (result.status = "error" /\ result.rows = <<>>)
    /\ result.status = "ok" => Len(result.rows) = Len(response.rows)

\* a batch of two rows of which exactly one fails has been rejected as a whole
C1_Witness ==
  /\ SettledOnRows
  /\ Len(response.rows) = 2
  /\ \E i, j \in 1..2 : RowFailsRawSchema(i) /\ ~RowFailsRawSchema(j)
  /\ result.status = "error"
  /\ result.rows = <<>>

\* C2 (as claimed): a null or absent value in a non-optional column makes
\* the invocation fail.
C2_RequiredNullFails ==
  SettledOnRows =>
    ((\E i \in 1..Len(response.rows) : \E c \in RequiredColumns(proc) :
        Get(RawRow(i), c).t \in {"null", "undefined"})
      => result.status = "error")

\* C3 (as claimed): a bigint column holding a value above 2^53 - 1 makes the
\* invocation fail.
C3_UnsafeBigintFails ==
  SettledOnRows =>
    ((\E i \in 1..Len(response.rows) : \E c \in BigintColumns(proc) :
        /\ Get(RawRow(i), c).t = "bigint"
        /\ BitsLess(MaxSafe, Get(RawRow(i), c).bits))
      => result.status = "error")

\* C4: within the safe range the conversion is exact.  In every returned
\* row a bigint column whose raw value v is at most 2^53 - 1 holds the
\* number v.
C4_SafeRangeExact ==
  (SettledOnRows /\ result.status = "ok") =>
    \A i \in 1..Len(response.rows) : \A c \in BigintColumns(proc) :
      ~BitsLess(MaxSafe, RawRow(i)[c].bits) =>
        result.rows[i][c] = Num(RawRow(i)[c].bits, <<>>)

\* rows came back holding 0, 1 and the largest safe value unchanged
C4_Witness ==
  /\ SettledOnRows /\ result.status = "ok" /\ proc = "getBlogAnalytics"
  /\ \E i, j \in 1..Len(response.rows) :
       /\ RawRow(i).total_posts = BigInt(MaxSafe)
       /\ result.rows[i].total_posts = Num(Ones(53), <<>>)
       /\ RawRow(i).published_posts = BigInt(<<1>>)
       /\ result.rows[i].published_posts = Num(<<1>>, <<>>)
       /\ RawRow(j).total_posts = BigInt(<<>>)
       /\ result.rows[j].total_posts = Num(<<>>, <<>>)

\* the number 1550
N1550 == Num(<<1, 1, 0, 0, 0, 0, 0, 1, 1, 1, 0>>, <<>>)
Text1550 == Str(<<"1", "5", "5", "0", ".", "0", "0">>)
Decimal1550 == DecimalObj(<<1, 1, 0, 0, 0, 0, 0, 1, 1, 1, 0>>, <<>>, FALSE)

\* the row is a well-formed row but for the columns in cols
GoodBut(row, cols) ==
  \E g \in GoodRows(proc) :
    /\ DOMAIN row = DOMAIN g
    /\ \A c \in DOMAIN g \ cols : row[c] = g[c]

\* C5: avg_views_per_post.  A batch that is well formed with 1550.00 given
\* as numeric text or as a decimal object is returned with the number 1550
\* in both forms; in every returned row a decimal object yields what its
\* toNumber() returns and numeric text yields the value of the text.
C5_AvgNormalized ==
  (SettledOnRows /\ proc = "getBlogAnalytics") =>
    /\ (\A i \in 1..Len(response.rows) :
          /\ GoodBut(RawRow(i), {"avg_views_per_post"})
          /\ RawRow(i).avg_views_per_post \in {Text1550, Decimal1550})
        => /\ result.status = "ok"
           /\ \A i \in 1..Len(response.rows) : result.rows[i].avg_views_per_post = N1550
    /\ result.status = "ok" =>
         \A i \in 1..Len(response.rows) :
           LET v == Get(RawRow(i), "avg_views_per_post") IN
           /\ (v.t = "object" /\ v.hasToNumber) =>
                (~v.nan /\ result.rows[i].avg_views_per_post = Num(v.bits, v.frac))
           /\ v = Str(<<" ", "7", ".", "5", "0", " ">>) =>
                result.rows[i].avg_views_per_post = Num(<<1, 1, 1>>, <<"5">>)

\* one batch held 1550.00 in both forms and both came back as 1550
C5_Witness ==
  /\ SettledOnRows /\ proc = "getBlogAnalytics" /\ result.status = "ok"
  /\ \E i, j \in 1..Len(response.rows) :
       /\ RawRow(i).avg_views_per_post = Text1550
       /\ RawRow(j).avg_views_per_post = Decimal1550
       /\ result.rows[i].avg_views_per_post = N1550
       /\ result.rows[j].avg_views_per_post = N1550

\* C6: optional columns.  A batch that is well formed but for optional
\* columns holding null validates, and in every returned row an optional
\* column whose raw value is null is null.
C6_OptionalNullKept ==
  (SettledOnRows /\ proc = "getBlogAnalytics") =>
    /\ (\A i \in 1..Len(response.rows) :
          /\ GoodBut(RawRow(i), OptionalColumns)
          /\ \A c \in OptionalColumns :
               RawRow(i)[c] = Null \/ \E g \in GoodRows(proc) : RawRow(i)[c] = g[c])
        => result.status = "ok"
    /\ result.status = "ok" =>
         \A i \in 1..Len(response.rows) : \A c \in OptionalColumns :
           Get(RawRow(i), c) = Null => result.rows[i][c] = Null

\* a row with null in all four optional columns was returned with the nulls
C6_Witness ==
  /\ SettledOnRows /\ proc = "getBlogAnalytics" /\ result.status = "ok"
  /\ \E i \in 1..Len(response.rows) : \A c \in OptionalColumns :
       RawRow(i)[c] = Null /\ result.rows[i][c] = Null

\* C7: undeclared columns.  Every returned row has exactly the declared
\* output columns, and a batch that is well formed but for undeclared
\* columns validates.
C7_ExtraColumnsDropped ==
  SettledOnRows =>
    /\ (\A i \in 1..Len(response.rows) :
          \E g \in GoodRows(proc) :
            /\ DOMAIN g \subseteq DOMAIN RawRow(i)
            /\ \A c \in DOMAIN g : RawRow(i)[c] = g[c])
        => result.status = "ok"
    /\ result.status = "ok" =>
         \A i \in 1..Len(result.rows) :
           DOMAIN result.rows[i] = DOMAIN OutputSchema(proc)

\* a top-posts row carrying an id column was returned without it
C7_Witness ==
  /\ SettledOnRows /\ proc = "getTopPostsByCategory" /\ result.status = "ok"
  /\ \E i \in 1..Len(response.rows) :
       /\ ExtraColumn \in DOMAIN RawRow(i)
       /\ ExtraColumn \notin DOMAIN result.rows[i]

\* the error a database failure of kind k surfaces to the caller
SurfacedOnDbFailure(k) == Resolve(proc, [ok |-> FALSE, rows |-> <<>>, error |-> PrismaError(k)]).error

\* C8 (as claimed): when validation of the batch fails, the error the caller
\* receives names the offending row index and column and differs from the
\* error of a database failure.
C8_ValidationFailureIdentified ==
  (SettledOnRows /\ \E i \in 1..Len(response.rows) : RowFailsRawSchema(i)) =>
    /\ result.status = "error"
    /\ result.error.issues # {}
    /\ result.error.issues \subseteq ZodArrayIssues(RawSchema(proc), response.rows)
    /\ \A k \in DbFailures : result.error # SurfacedOnDbFailure(k)

\* C9 (as claimed): a database failure reaches the caller as an error that
\* is, or carries as its cause, the underlying error.
C9_QueryFailureCarriesCause ==
  (pc = "done" /\ queries # <<>> /\ ~response.ok) =>
    /\ result.status = "error"
    /\ result.rows = <<>>
    /\ result.error = response.error \/ result.error.cause = response.error.name

\* the request was rejected by the input parser
RejectedInput == pc = "done" /\ result.error.message = "BAD_REQUEST"

\* C10 (as claimed): every invocation issues exactly one round trip.
C10_ExactlyOneRoundTrip == pc = "done" => Len(queries) = 1

\* C10 (amended): an invocation whose input passes the input parser issues
\* exactly one round trip, also when the query or the validation fails; an
\* invocation rejected by the input parser issues none; none issues two.
C10_OneRoundTripUnlessRejected ==
  /\ Len(queries) <= 1
  /\ pc = "awaiting" => Len(queries) = 1
  /\ pc = "done" => (Len(queries) = 1 <=> ~RejectedInput)

\* an invocation failed after its single query: on a database failure or
\* on a validation failure
C10_Witness ==
  /\ pc = "done" /\ result.status = "error" /\ Len(queries) = 1
  /\ ~response.ok \/ \E i \in 1..Len(response.rows) : RowFailsRawSchema(i)

\* the input is an object whose category is a string
HasStringCategory(in) == "category" \in DOMAIN in /\ in.category.t = "string"

\* the request's parameters are not the procedure's declared parameter list
ParamsMismatch(p, in) ==
  IF p = "getBlogAnalytics"
  THEN DOMAIN in # {}
  ELSE ~(DOMAIN in = {"category"} /\ HasStringCategory(in))

C12_QueryTextIndependentOfCategory ==
  (proc = "getTopPostsByCategory" /\ queries # <<>>) =>
    \A i \in 1..Len(queries) :
      /\ \A in \in Inputs(proc) :
           InputValid(proc, in) =>
             queries[i].text = QueryOf(proc, ParsedInput(proc, in)).text
      /\ queries[i].params = <<input.category>>

\* a category holding a quote, a closing parenthesis and a semicolon was
\* sent to the database
C12_Witness ==
  /\ proc = "getTopPostsByCategory" /\ queries # <<>>
  /\ input.category = Str(Chars("quote"))

\* ------------------------------------------------------- the seed data
\* id of the k-th row an owner created in a table: owner 0 is whoever wrote
\* the rows found at the start, owner n the n-th client
Id(owner, k) == <<owner, k>>

categoriesData == <<"technology", "web-development", "database", "devops">>

tagsData ==
  <<"react", "nextjs", "typescript", "postgresql", "prisma", "javascript",
    "css", "docker", "aws", "nodejs">>

authorsData ==
  <<[name |-> "Alice Johnson", email |-> "alice@example.com"],
    [name |-> "Bob Smith", email |-> "bob@example.com"],
    [name |-> "Carol Williams", email |-> "carol@example.com"],
    [name |-> "David Brown", email |-> "david@example.com"]>>

\* author, category and tagIds are positions in authors, categories and tags
\* counted from 1; publishedAt is the day of the year 2024
postsData ==
  <<[slug |-> "getting-started-nextjs-14", published |-> TRUE,
     publishedAt |-> NotNull(15), author |-> 1, category |-> 2,
     viewCount |-> 1250, tagIds |-> <<2, 3, 6>>],
    [slug |-> "postgresql-optimization-techniques", published |-> TRUE,
     publishedAt |-> NotNull(20), author |-> 2, category |-> 3,
     viewCount |-> 890, tagIds |-> <<4>>],
    [slug |-> "type-safe-apis-prisma", published |-> TRUE,
     publishedAt |-> NotNull(32), author |-> 1, category |-> 3,
     viewCount |-> 2150, tagIds |-> <<5, 3, 4>>],
    [slug |-> "docker-deployment-best-practices", published |-> TRUE,
     publishedAt |-> NotNull(41), author |-> 3, category |-> 4,
     viewCount |-> 760, tagIds |-> <<8, 9>>],
    [slug |-> "modern-css-techniques-2024", published |-> TRUE,
     publishedAt |-> NotNull(46), author |-> 4, category |-> 2,
     viewCount |-> 1840, tagIds |-> <<7>>],
    [slug |-> "react-server-components-deep-dive", published |-> TRUE,
     publishedAt |-> NotNull(61), author |-> 4, category |-> 2,
     viewCount |-> 3200, tagIds |-> <<1, 2, 3>>],
    [slug |-> "database-migrations-prisma", published |-> FALSE,
     publishedAt |-> SqlNull, author |-> 2, category |-> 3,
     viewCount |-> 0, tagIds |-> <<5, 4>>],
    [slug |-> "aws-lambda-nodejs", published |-> TRUE,
     publishedAt |-> NotNull(70), author |-> 3, category |-> 4,
     viewCount |-> 1100, tagIds |-> <<9, 10>>]>>

Range(seq) == {seq[i] : i \in 1..Len(seq)}

\* ------------------------------------------------------------ table rows
AuthorRow(owner, k) ==
  [id |-> Id(owner, k), name |-> authorsData[k].name, email |-> authorsData[k].email]

CategoryRow(owner, k) == [id |-> Id(owner, k), slug |-> categoriesData[k]]

TagRow(owner, k) == [id |-> Id(owner, k), slug |-> tagsData[k]]

\* a post row; title and slug are both the slug of postsData (a numbered
\* slug beyond it), createdAt (@default(now())) is the position of the
\* insert in time
PostSlug(k) ==
  IF k <= Len(postsData) THEN postsData[k].slug ELSE "post-" \o ToString(k)

PostRow(owner, k, author, category, published, publishedAt, viewCount) ==
  [id |-> Id(owner, k), slug |-> PostSlug(k), title |-> PostSlug(k),
   authorId |-> author, categoryId |-> category, published |-> published,
   publishedAt |-> publishedAt, viewCount |-> viewCount, createdAt |-> k]

PostTagRow(post, tag) == [postId |-> post, tagId |-> tag]

\* the k-th post of postsData as owner creates it, and its links
SeedPost(owner, k) ==
  PostRow(owner, k, Id(owner, postsData[k].author), Id(owner, postsData[k].category),
          postsData[k].published, postsData[k].publishedAt, postsData[k].viewCount)

SeedPostTags(owner, k) ==
  {PostTagRow(Id(owner, k), Id(owner, t)) : t \in Range(postsData[k].tagIds)}

\* the tables as one run of populateDatabase by owner leaves them
SeedDb(owner) ==
  [authors |-> {AuthorRow(owner, k) : k \in 1..Len(authorsData)},
   categories |-> {CategoryRow(owner, k) : k \in 1..Len(categoriesData)},
   tags |-> {TagRow(owner, k) : k \in 1..Len(tagsData)},
   posts |-> {SeedPost(owner, k) : k \in 1..Len(postsData)},
   postTags |-> UNION {SeedPostTags(owner, k) : k \in 1..Len(postsData)}]

\* -------------------------------------------------------------- SQL pieces
\* ORDER BY ... DESC on every key: the orders of the rows of S in which no
\* row comes before a row with a greater key; rows with equal keys come in
\* any order
LexGreater(k1, k2) ==
  \E i \in 1..Len(k1) : k1[i] > k2[i] /\ \A j \in 1..(i - 1) : k1[j] = k2[j]

RECURSIVE OrderByDesc(_, _)
OrderByDesc(S, key) ==
  IF S = {} THEN {<<>>}
  ELSE UNION {{<<x>> \o rest : rest \in OrderByDesc(S \ {x}, key)} :
                x \in {y \in S : \A z \in S : ~LexGreater(key[z], key[y])}}

\* LIMIT n
Limit(rows, n) == SubSeq(rows, 1, IF Len(rows) < n THEN Len(rows) ELSE n)

\* SUM("viewCount") over joined rows that have a post
RECURSIVE SumViewCount(_)
SumViewCount(J) ==
  IF J = {} THEN 0
  ELSE LET r == CHOOSE r \in J : TRUE
       IN r.p[1].viewCount + SumViewCount(J \ {r})

\* MIN / MAX of a set of integers, NULL over no rows
MinOf(S) == IF S = {} THEN SqlNull ELSE NotNull(CHOOSE x \in S : \A y \in S : x <= y)
MaxOf(S) == IF S = {} THEN SqlNull ELSE NotNull(CHOOSE x \in S : \A y \in S : x >= y)

\* ROUND(s::NUMERIC / c, 2) for s >= 0 and c > 0, in hundredths: half away
\* from zero
RoundDiv2(s, c) == (200 * s + c) \div (2 * c)

\* ------------------------------------------------- get_blog_analytics()
\* FROM authors a LEFT JOIN posts p ON a.id = p."authorId"
\*                LEFT JOIN post_tags pt ON p.id = pt."postId"
AuthorsPostsTagsInner(d) ==
  UNION {
    UNION {
      IF {l \in d.postTags : l.postId = p.id} = {}
      THEN {[a |-> a, p |-> NotNull(p), pt |-> SqlNull]}
      ELSE {[a |-> a, p |-> NotNull(p), pt |-> NotNull(l)] :
              l \in {m \in d.postTags : m.postId = p.id}}
      : p \in {q \in d.posts : q.authorId = a.id}}
    : a \in d.authors}

AuthorsPostsTags(d) ==
  UNION {
    IF {p \in d.posts : p.authorId = a.id} = {}
    THEN {[a |-> a, p |-> SqlNull, pt |-> SqlNull]}
    ELSE UNION {
           IF {l \in d.postTags : l.postId = p.id} = {}
           THEN {[a |-> a, p |-> NotNull(p), pt |-> SqlNull]}
           ELSE {[a |-> a, p |-> NotNull(p), pt |-> NotNull(l)] :
                   l \in {m \in d.postTags : m.postId = p.id}}
           : p \in {q \in d.posts : q.authorId = a.id}}
    : a \in d.authors}

\* the subqueries ... WHERE p2."authorId" = a.id ORDER BY p2."viewCount" DESC
\* LIMIT 1: the rows either may pick
MostPopularAscending(d, a) ==
  {p \in d.posts :
     /\ p.authorId = a.id
     /\ \A q \in d.posts : q.authorId = a.id => q.viewCount >= p.viewCount}

MostPopular(d, a) ==
  {p \in d.posts :
     /\ p.authorId = a.id
     /\ \A q \in d.posts : q.authorId = a.id => q.viewCount <= p.viewCount}

\* the aggregates of one group of GROUP BY a.id, a.name, a.email; the title
\* is completed by the subquery
AnalyticsGroup(d, a) ==
  LET G == {r \in AuthorsPostsTags(d) : r.a = a}
      P == {r \in G : r.p # SqlNull}
  IN [author_name |-> a.name,
      author_email |-> a.email,
      total_posts |-> Cardinality(P),
      published_posts |-> Cardinality({r \in P : r.p[1].published}),
      total_views |-> SumViewCount(P),
      avg_views_per_post |->
        IF Cardinality(P) > 0 THEN RoundDiv2(SumViewCount(P), Cardinality(P)) ELSE 0,
      most_popular_post_title |-> SqlNull,
      most_popular_post_views |-> MaxOf({p.viewCount : p \in MostPopular(d, a)}),
      categories_used |-> Cardinality({r.p[1].categoryId : r \in P}),
      total_tags |-> Cardinality({r.pt[1].tagId : r \in {x \in P : x.pt # SqlNull}}),
      first_post_date |-> MinOf({r.p[1].createdAt : r \in P}),
      last_post_date |-> MaxOf({r.p[1].createdAt : r \in P})]

\* the rows of the groups in one order of the authors, each with a title its
\* subquery may pick
RECURSIVE AnalyticsRows(_, _, _)
AnalyticsRows(d, group, order) ==
  IF order = <<>> THEN {<<>>}
  ELSE {<<[group[Head(order)] EXCEPT !.most_popular_post_title = t]>> \o rest :
          t \in (IF MostPopular(d, Head(order)) = {} THEN {SqlNull}
                 ELSE {NotNull(p.title) : p \in MostPopular(d, Head(order))}),
          rest \in AnalyticsRows(d, group, Tail(order))}

\* the results get_blog_analytics() may return on the tables d:
\* ORDER BY total_posts DESC, total_views DESC
get_blog_analytics(d) ==
  LET A == {r.a : r \in AuthorsPostsTags(d)}
      group == [a \in A |-> AnalyticsGroup(d, a)]
      key == [a \in A |-> <<group[a].total_posts, group[a].total_views>>]
  IN UNION {AnalyticsRows(d, group, order) : order \in OrderByDesc(A, key)}

\* ------------------------------ get_top_posts_by_category(category_slug)
TopPostsLimit == 10

\* FROM posts p INNER JOIN authors a ... INNER JOIN categories c ...
\* WHERE c.slug = category_slug AND p.published = true
TopPostsMatchingAnyStatus(d, category_slug) ==
  {p \in d.posts :
     /\ \E a \in d.authors : a.id = p.authorId
     /\ \E c \in d.categories : c.id = p.categoryId /\ c.slug = category_slug}

TopPostsMatching(d, category_slug) ==
  {p \in d.posts :
     /\ \E a \in d.authors : a.id = p.authorId
     /\ \E c \in d.categories : c.id = p.categoryId /\ c.slug = category_slug
     /\ p.published}

\* one group of GROUP BY p.id, ...: COUNT(pt."tagId") over the LEFT JOIN
TopPostRow(d, p) ==
  [post_title |-> p.title,
   author_name |-> (CHOOSE a \in d.authors : a.id = p.authorId).name,
   view_count |-> p.viewCount,
   published_at |-> p.publishedAt,
   tag_count |-> Cardinality({l \in d.postTags : l.postId = p.id})]

\* ORDER BY p."viewCount" DESC, p."publishedAt" DESC: NULL sorts first in a
\* descending order
TopPostKey(p) ==
  <<p.viewCount,
    IF p.publishedAt = SqlNull THEN 1 ELSE 0,
    IF p.publishedAt = SqlNull THEN 0 ELSE p.publishedAt[1]>>

get_top_posts_by_category(d, category_slug) ==
  LET M == TopPostsMatching(d, category_slug)
  IN {Limit([i \in 1..Len(order) |-> TopPostRow(d, order[i])], TopPostsLimit) :
        order \in OrderByDesc(M, [p \in M |-> TopPostKey(p)])}

\* ------------------------------------------------------------ getAllPosts
AllPostsTake == 20

\* post.findMany({ select, orderBy: { viewCount: 'desc' }, take: 20 })
getAllPosts(d) ==
  {Limit([i \in 1..Len(order) |->
            [id |-> order[i].id, title |-> order[i].title, slug |-> order[i].slug,
             published |-> order[i].published, viewCount |-> order[i].viewCount,
             publishedAt |-> order[i].publishedAt,
             author |-> (CHOOSE a \in d.authors : a.id = order[i].authorId).email,
             category |-> (CHOOSE c \in d.categories : c.id = order[i].categoryId).slug,
             tags |-> Cardinality({l \in d.postTags : l.postId = order[i].id})]],
         AllPostsTake) :
     order \in OrderByDesc(d.posts, [p \in d.posts |-> <<p.viewCount>>])}

\* ------------------------------------------- the tables a query may find
\* rows found at the start are owner 0's
FoundAuthors == {AuthorRow(0, 1), AuthorRow(0, 2)}
FoundCategories == {CategoryRow(0, 1), CategoryRow(0, 3)}
FoundTags == {TagRow(0, 1), TagRow(0, 2)}

\* what the posts found at the start may be: posts that differ in author,
\* publication, views and tags, and posts that differ in category,
\* publication date, views and tags
AnalyticsProfiles ==
  {[author |-> a, category |-> 1, published |-> b,
    publishedAt |-> IF b THEN NotNull(1) ELSE SqlNull, viewCount |-> v, tags |-> T] :
     a \in {1, 2}, b \in BOOLEAN, v \in {5, 7}, T \in {{}, {1}, {1, 2}}}

TopPostsProfiles ==
  {[author |-> 1, category |-> c, published |-> pp[1], publishedAt |-> pp[2],
    viewCount |-> v, tags |-> T] :
     c \in {1, 3},
     pp \in {<<FALSE, SqlNull>>, <<TRUE, SqlNull>>, <<TRUE, NotNull(1)>>,
             <<TRUE, NotNull(2)>>},
     v \in {5, 7}, T \in {{}, {1, 2}}}

RECURSIVE SubsetsUpTo(_, _)
SubsetsUpTo(P, n) ==
  IF n = 0 THEN {{}}
  ELSE LET prev == SubsetsUpTo(P, n - 1)
       IN prev \cup {S \cup {x} : S \in prev, x \in P}

\* the tables with one post per profile of S, numbered from k
RECURSIVE FoundPosts(_, _)
FoundPosts(S, k) ==
  IF S = {} THEN [posts |-> {}, postTags |-> {}]
  ELSE LET x == CHOOSE x \in S : TRUE
           rest == FoundPosts(S \ {x}, k + 1)
       IN [posts |-> rest.posts \cup
                       {PostRow(0, k, Id(0, x.author), Id(0, x.category),
                                x.published, x.publishedAt, x.viewCount)},
           postTags |-> rest.postTags \cup
                          {PostTagRow(Id(0, k), Id(0, t)) : t \in x.tags}]

FoundDb(S) ==
  [authors |-> FoundAuthors, categories |-> FoundCategories, tags |-> FoundTags,
   posts |-> FoundPosts(S, 1).posts, postTags |-> FoundPosts(S, 1).postTags]

\* n published posts of one author in one category; views(k) and the
\* publication day of the k-th post differ from post to post, or pairs of
\* posts share both
BulkDb(n, paired) ==
  [authors |-> FoundAuthors, categories |-> FoundCategories, tags |-> FoundTags,
   posts |-> {PostRow(0, k, Id(0, 1), Id(0, 1), TRUE,
                      NotNull(IF paired THEN 1 ELSE k),
                      IF paired THEN (k + 1) \div 2 ELSE k) : k \in 1..n},
   postTags |-> {PostTagRow(Id(0, 1), Id(0, 1))}]

SqlStates ==
  {EmptyDb, SeedDb(0)}
  \cup {FoundDb(S) : S \in SubsetsUpTo(AnalyticsProfiles, MaxPosts)}
  \cup {FoundDb(S) : S \in SubsetsUpTo(TopPostsProfiles, MaxPosts)}
  \cup {BulkDb(TopPostsLimit + 1, paired) : paired \in BOOLEAN}
  \cup {BulkDb(AllPostsTake + 1, FALSE)}

\* the slugs a caller asks for: of categories that exist, of none
Slugs == {"technology", "database", "no-such-category"}

\* ------------------------------------------------ the database executes
\* The query of a read invocation is executed on the committed rows.
RunBlogAnalytics ==
  /\ lastRead = NoRead
  /\ \E rows \in get_blog_analytics(db) :
       lastRead' = [proc |-> "get_blog_analytics", arg |-> "", rows |-> rows]
  /\ UNCHANGED <<db, clients, handlerVars, factsVars>>

RunTopPostsByCategory ==
  /\ lastRead = NoRead
  /\ \E slug \in Slugs : \E rows \in get_top_posts_by_category(db, slug) :
       lastRead' = [proc |-> "get_top_posts_by_category", arg |-> slug, rows |-> rows]
  /\ UNCHANGED <<db, clients, handlerVars, factsVars>>

RunAllPostsCountingViews ==
  /\ lastRead = NoRead
  /\ \E rows \in getAllPosts(db) :
       lastRead' = [proc |-> "getAllPosts", arg |-> "", rows |-> rows]
  /\ db' = [db EXCEPT !.posts = {[p EXCEPT !.viewCount = @ + 1] : p \in db.posts}]
  /\ UNCHANGED <<clients, handlerVars, factsVars>>

RunAllPosts ==
  /\ lastRead = NoRead
  /\ \E rows \in getAllPosts(db) :
       lastRead' = [proc |-> "getAllPosts", arg |-> "", rows |-> rows]
  /\ UNCHANGED <<db, clients, handlerVars, factsVars>>

\* the stored procedures and getAllPosts on the tables a caller may find
SqlInit ==
  /\ pc = "idle"
  /\ proc = "getBlogAnalytics"
  /\ input = NoInput
  /\ queries = <<>>
  /\ response = NoResponse
  /\ result = NoResult
  /\ logged = NoError
  /\ db \in SqlStates
  /\ lastRead = NoRead
  /\ clients = [c \in 1..MaxClients |-> IdleClient]
  /\ FactsIdle

SqlNext == RunBlogAnalytics \/ RunTopPostsByCategory \/ RunAllPosts

SpecSql == SqlInit /\ [][SqlNext]_vars

\* ------------------------------------------- claims on the stored procedures
AnalyticsRead == lastRead.proc = "get_blog_analytics"
TopPostsRead == lastRead.proc = "get_top_posts_by_category"

\* the posts written by the author with this email address
PostsBy(email) ==
  {p \in db.posts : \E a \in db.authors : a.email = email /\ p.authorId = a.id}

\* the tags linked to a post
TagsOfPost(p) == {l \in db.postTags : l.postId = p.id}

RECURSIVE TotalViewCount(_)
TotalViewCount(P) ==
  IF P = {} THEN 0
  ELSE LET p == CHOOSE p \in P : TRUE IN p.viewCount + TotalViewCount(P \ {p})

\* C14 (as claimed): in every row of get_blog_analytics, total_posts is the
\* number of the author's posts and published_posts the number of them that
\* are published, whatever number of tags the posts have.
C14_PostCounts ==
  AnalyticsRead =>
    \A i \in 1..Len(lastRead.rows) :
      /\ lastRead.rows[i].total_posts =
           Cardinality(PostsBy(lastRead.rows[i].author_email))
      /\ lastRead.rows[i].published_posts =
           Cardinality({p \in PostsBy(lastRead.rows[i].author_email) : p.published})

\* C15 (as claimed): in every row of get_blog_analytics, total_views is the
\* sum of viewCount over the author's posts, each post once, and
\* avg_views_per_post (in hundredths) is that sum divided by the number of
\* the author's posts, rounded to 2 decimals, 0 for an author without posts.
C15_ViewTotals ==
  AnalyticsRead =>
    \A i \in 1..Len(lastRead.rows) :
      LET P == PostsBy(lastRead.rows[i].author_email)
      IN /\ lastRead.rows[i].total_views = TotalViewCount(P)
         /\ lastRead.rows[i].avg_views_per_post =
              (IF P = {} THEN 0
               ELSE (200 * TotalViewCount(P) + Cardinality(P)) \div (2 * Cardinality(P)))

\* C16: in every row of get_blog_analytics of an author with posts,
\* most_popular_post_views is the greatest viewCount of the author's posts
\* and most_popular_post_title the title of one of the author's posts with
\* that viewCount; both are NULL for an author without posts.
C16_MostPopularPost ==
  AnalyticsRead =>
    \A i \in 1..Len(lastRead.rows) :
      LET P == PostsBy(lastRead.rows[i].author_email)
          r == lastRead.rows[i]
      IN IF P = {}
         THEN r.most_popular_post_views = SqlNull /\ r.most_popular_post_title = SqlNull
         ELSE /\ r.most_popular_post_views # SqlNull
              /\ r.most_popular_post_title # SqlNull
              /\ \A p \in P : p.viewCount <= r.most_popular_post_views[1]
              /\ \E p \in P : /\ p.viewCount = r.most_popular_post_views[1]
                              /\ p.title = r.most_popular_post_title[1]

\* get_blog_analytics was run on tables where an author has posts with
\* different views and another author has no post
C16_Witness ==
  /\ AnalyticsRead
  /\ \E p, q \in db.posts : p.authorId = q.authorId /\ p.viewCount < q.viewCount
  /\ \E a \in db.authors : PostsBy(a.email) = {}

\* C17: get_blog_analytics returns exactly one row per author; the row of an
\* author without posts has 0 in total_posts, published_posts, total_views,
\* categories_used and total_tags and NULL in first_post_date and
\* last_post_date; the rows come by total_posts descending, then total_views
\* descending.
C17_OneRowPerAuthor ==
  AnalyticsRead =>
    /\ Len(lastRead.rows) = Cardinality(db.authors)
    /\ {lastRead.rows[i].author_email : i \in 1..Len(lastRead.rows)} =
         {a.email : a \in db.authors}
    /\ \A i \in 1..Len(lastRead.rows) :
         LET r == lastRead.rows[i]
         IN PostsBy(r.author_email) = {} =>
              /\ r.total_posts = 0 /\ r.published_posts = 0 /\ r.total_views = 0
              /\ r.categories_used = 0 /\ r.total_tags = 0
              /\ r.first_post_date = SqlNull /\ r.last_post_date = SqlNull
    /\ \A i, j \in 1..Len(lastRead.rows) :
         i < j =>
           \/ lastRead.rows[i].total_posts > lastRead.rows[j].total_posts
           \/ /\ lastRead.rows[i].total_posts = lastRead.rows[j].total_posts
              /\ lastRead.rows[i].total_views >= lastRead.rows[j].total_views

\* get_blog_analytics was run on tables with an author with posts and an
\* author without, and returned the author with posts first
C17_Witness ==
  /\ AnalyticsRead
  /\ Len(lastRead.rows) = 2
  /\ PostsBy(lastRead.rows[1].author_email) # {}
  /\ PostsBy(lastRead.rows[2].author_email) = {}

\* the published posts of the category with the slug asked for
PublishedIn(slug) ==
  {p \in db.posts :
     p.published /\ \E c \in db.categories : c.id = p.categoryId /\ c.slug = slug}

\* row r shows post p
ShowsPost(r, p) ==
  /\ r.post_title = p.title
  /\ r.view_count = p.viewCount
  /\ r.published_at = p.publishedAt
  /\ r.tag_count = Cardinality(TagsOfPost(p))
  /\ \E a \in db.authors : a.id = p.authorId /\ a.name = r.author_name

\* views v1 published at d1 does not come after views v2 published at d2:
\* more views, or the same views and no earlier day (where both have a day)
NotAfter(v1, d1, v2, d2) ==
  \/ v1 > v2
  \/ v1 = v2 /\ ((d1 # SqlNull /\ d2 # SqlNull) => d1[1] >= d2[1])

\* C18: get_top_posts_by_category returns only published posts of the
\* category with the given slug, each at most once and with its number of
\* tags, by views descending then publication day descending, the first 10
\* of that order; a slug of no category gives no rows, not an error.
C18_TopPosts ==
  /\ \A slug \in Slugs : get_top_posts_by_category(db, slug) # {}
  /\ TopPostsRead =>
       LET rows == lastRead.rows
           M == PublishedIn(lastRead.arg)
       IN /\ \A i \in 1..Len(rows) : \E p \in M : ShowsPost(rows[i], p)
          /\ \A i, j \in 1..Len(rows) : i < j => rows[i].post_title # rows[j].post_title
          /\ Len(rows) = (IF Cardinality(M) < 10 THEN Cardinality(M) ELSE 10)
          /\ \A i, j \in 1..Len(rows) :
               i < j => NotAfter(rows[i].view_count, rows[i].published_at,
                                 rows[j].view_count, rows[j].published_at)
          /\ \A p \in M :
               (\A i \in 1..Len(rows) : ~ShowsPost(rows[i], p)) =>
                 \A i \in 1..Len(rows) :
                   NotAfter(rows[i].view_count, rows[i].published_at,
                            p.viewCount, p.publishedAt)
          /\ (\A c \in db.categories : c.slug # lastRead.arg) => rows = <<>>

\* get_top_posts_by_category returned 10 of the more than 10 published
\* posts of the category
C18_Witness ==
  /\ TopPostsRead
  /\ Len(lastRead.rows) = 10
  /\ Cardinality(PublishedIn(lastRead.arg)) > 10

\* what $queryRaw hands to the resolver for a row of
\* get_top_posts_by_category: VARCHAR as a string, INT as a number,
\* TIMESTAMP as a Date or null, BIGINT as a bigint
DeserializeTopPost(r) ==
  [post_title |-> Str(<<r.post_title>>),
   author_name |-> Str(<<r.author_name>>),
   view_count |-> Num(NatToBits(r.view_count), <<>>),
   published_at |-> IF r.published_at = SqlNull THEN Null
                    ELSE Date(NatToBits(r.published_at[1])),
   tag_count |-> BigInt(NatToBits(r.tag_count))]

\* C29 (as claimed): every row that get_top_posts_by_category returns has a
\* publication date and passes TopPostRawSchema, and getTopPostsByCategory
\* succeeds on the rows.
C29_TopPostsPassRawSchema ==
  TopPostsRead =>
    LET rows == [i \in 1..Len(lastRead.rows) |-> DeserializeTopPost(lastRead.rows[i])]
    IN /\ \A i \in 1..Len(rows) :
            /\ lastRead.rows[i].published_at # SqlNull
            /\ ZodObjectIssues(TopPostRawSchema, rows[i]) = {}
       /\ Resolve("getTopPostsByCategory",
                  [ok |-> TRUE, rows |-> rows, error |-> NoError]).status = "ok"

\* -------------------------------------------- statements on the five tables
Clients == 1..MaxClients

\* order of the deleteMany calls and of the count calls
DeleteOrderWithoutTags == <<"postTags", "posts", "authors", "categories">>

DeleteOrder == <<"postTags", "posts", "authors", "categories", "tags">>

CountOrder == <<"authors", "categories", "tags", "posts", "postTags">>

Ids(rows) == {r.id : r \in rows}

\* d without the rows rm
Without(d, rm) ==
  [authors |-> d.authors \ rm.authors, categories |-> d.categories \ rm.categories,
   tags |-> d.tags \ rm.tags, posts |-> d.posts \ rm.posts,
   postTags |-> d.postTags \ rm.postTags]

\* d and the rows add
With(d, add) ==
  [authors |-> d.authors \cup add.authors,
   categories |-> d.categories \cup add.categories,
   tags |-> d.tags \cup add.tags, posts |-> d.posts \cup add.posts,
   postTags |-> d.postTags \cup add.postTags]

\* rows that a transaction of a client other than c has deleted and not yet
\* committed: they are locked, and a statement that needs one waits
LockedForClient(c) ==
  [authors |-> UNION {clients[o].pending.authors : o \in Clients \ {c}},
   categories |-> UNION {clients[o].pending.categories : o \in Clients \ {c}},
   tags |-> UNION {clients[o].pending.tags : o \in Clients \ {c}},
   posts |-> UNION {clients[o].pending.posts : o \in Clients \ {c}},
   postTags |-> UNION {clients[o].pending.postTags : o \in Clients \ {c}}]

\* what a statement of client c sees: the committed rows without the rows
\* its own open transaction has deleted
VisibleTo(c) == Without(db, clients[c].pending)

\* the rows DELETE FROM <table> removes from the rows v: every row of the
\* table and, by onDelete: Cascade, the posts of deleted authors and the
\* post_tags of deleted posts and tags
Deleted(v, table) ==
  LET posts == CASE table = "posts" -> v.posts
                 [] table = "authors" ->
                      {p \in v.posts : p.authorId \in Ids(v.authors)}
                 [] OTHER -> {}
  IN [authors |-> IF table = "authors" THEN v.authors ELSE {},
      categories |-> IF table = "categories" THEN v.categories ELSE {},
      tags |-> IF table = "tags" THEN v.tags ELSE {},
      posts |-> posts,
      postTags |->
        CASE table = "postTags" -> v.postTags
          [] table = "tags" -> {l \in v.postTags : l.tagId \in Ids(v.tags)}
          [] OTHER -> {l \in v.postTags : l.postId \in Ids(posts)}]

\* Post.category has no onDelete: deleting a category that a post references
\* is rejected
Restricted(v, table) ==
  /\ table = "categories"
  /\ \E p \in v.posts : p.categoryId \in Ids(v.categories)

\* no row of rows is locked by another client
Unlocked(c, rows) ==
  /\ rows.authors \cap LockedForClient(c).authors = {}
  /\ rows.categories \cap LockedForClient(c).categories = {}
  /\ rows.tags \cap LockedForClient(c).tags = {}
  /\ rows.posts \cap LockedForClient(c).posts = {}
  /\ rows.postTags \cap LockedForClient(c).postTags = {}

\* a delete of client c on the table need not wait: no row it removes, and
\* no post that a category delete has to check, is locked by another client
DeleteProceeds(c, table) ==
  /\ Unlocked(c, Deleted(VisibleTo(c), table))
  /\ table = "categories" => VisibleTo(c).posts \cap LockedForClient(c).posts = {}

\* the rows of d that collide with the rows add on a unique column (email
\* of authors, slug of categories, tags and posts, the key of post_tags)
UniqueConflicts(d, add) ==
  [authors |-> {r \in d.authors : \E n \in add.authors : n.email = r.email},
   categories |-> {r \in d.categories : \E n \in add.categories : n.slug = r.slug},
   tags |-> {r \in d.tags : \E n \in add.tags : n.slug = r.slug},
   posts |-> {r \in d.posts : \E n \in add.posts : n.slug = r.slug},
   postTags |-> d.postTags \cap add.postTags]

\* the rows of d that the foreign keys of the rows add refer to
Referenced(d, add) ==
  [authors |-> {r \in d.authors : \E n \in add.posts : n.authorId = r.id},
   categories |-> {r \in d.categories : \E n \in add.posts : n.categoryId = r.id},
   tags |-> {r \in d.tags : \E n \in add.postTags : n.tagId = r.id},
   posts |-> {r \in d.posts : \E n \in add.postTags : n.postId = r.id},
   postTags |-> {}]

\* an insert of the rows add by client c need not wait
InsertProceeds(c, add) ==
  /\ Unlocked(c, UniqueConflicts(db, add))
  /\ Unlocked(c, Referenced(db, add))

\* the insert violates a unique or a foreign key constraint
InsertRejected(d, add) ==
  \/ UniqueConflicts(d, add) # EmptyDb
  \/ \E n \in add.posts :
       n.authorId \notin Ids(d.authors) \/ n.categoryId \notin Ids(d.categories)
  \/ \E n \in add.postTags :
       n.postId \notin Ids(d.posts) \/ n.tagId \notin Ids(d.tags)

\* <table>.count()
Count(d, table) ==
  CASE table = "authors" -> Cardinality(d.authors)
    [] table = "categories" -> Cardinality(d.categories)
    [] table = "tags" -> Cardinality(d.tags)
    [] table = "posts" -> Cardinality(d.posts)
    [] table = "postTags" -> Cardinality(d.postTags)

\* ------------------------------------ populateDatabase and clearDatabase
\* the rows one populateDatabase of client c creates with one awaited call
NewRows(c, at, k) ==
  [authors |-> IF at = "authors"
               THEN {AuthorRow(c, n) : n \in 1..Len(authorsData)} ELSE {},
   categories |-> IF at = "categories"
                  THEN {CategoryRow(c, n) : n \in 1..Len(categoriesData)} ELSE {},
   tags |-> IF at = "tags" THEN {TagRow(c, n) : n \in 1..Len(tagsData)} ELSE {},
   posts |-> IF at = "post" THEN {SeedPost(c, k)} ELSE {},
   postTags |-> IF at = "postTags" THEN SeedPostTags(c, k) ELSE {}]

\* the awaited call after a create of populateDatabase
AfterCreate(at, k) ==
  CASE at = "categories" -> [at |-> "tags", k |-> 0]
    [] at = "tags" -> [at |-> "authors", k |-> 0]
    [] at = "authors" -> [at |-> "post", k |-> 1]
    [] at = "post" -> [at |-> "postTags", k |-> k]
    [] at = "postTags" ->
         IF k < Len(postsData) THEN [at |-> "post", k |-> k + 1]
         ELSE [at |-> "count", k |-> 1]

InFlight(c) == clients[c].at \notin {"idle", "done", "failed"}

\* the catch block: the invocation throws 'Failed to ...'; an open
\* transaction is rolled back
Thrown(c) == [clients[c] EXCEPT !.at = "failed", !.pending = EmptyDb]

\* A client invokes a mutation.
Start(c, op) ==
  /\ clients[c].at = "idle"
  /\ clients' =
       [o \in Clients |->
          IF o = c
          THEN [IdleClient EXCEPT
                  !.op = op,
                  !.at = IF op = "populateDatabase" THEN "delete" ELSE "count",
                  !.k = 1,
                  !.undisturbed = \A x \in Clients \ {c} : ~InFlight(x),
                  !.again = \E w \in 0..MaxClients : db = SeedDb(w)]
          ELSE IF clients[o].at = "idle" THEN clients[o]
          ELSE [clients[o] EXCEPT !.undisturbed = FALSE]]
  /\ lastRead' = NoRead
  /\ UNCHANGED <<db, handlerVars, factsVars>>

StartPopulate == \E c \in Clients : Start(c, "populateDatabase")
StartClear == \E c \in Clients : Start(c, "clearDatabase")

\* populateDatabase: await ctx.db.<table>.deleteMany(), each its own statement
PopulateDelete(c) ==
  /\ clients[c].op = "populateDatabase" /\ clients[c].at = "delete"
  /\ DeleteProceeds(c, DeleteOrder[clients[c].k])
  /\ IF Restricted(db, DeleteOrder[clients[c].k])
     THEN /\ clients' = [clients EXCEPT ![c] = Thrown(c)]
          /\ db' = db
     ELSE /\ db' = Without(db, Deleted(db, DeleteOrder[clients[c].k]))
          /\ clients' =
               [clients EXCEPT ![c] =
                  IF clients[c].k < Len(DeleteOrder)
                  THEN [clients[c] EXCEPT !.k = @ + 1]
                  ELSE [clients[c] EXCEPT !.at = "categories", !.k = 0]]
  /\ lastRead' = NoRead
  /\ UNCHANGED <<handlerVars, factsVars>>

\* populateDatabase: one awaited create, a single statement or a
\* $transaction of creates that commits as a whole or not at all
PopulateCreate(c) ==
  /\ clients[c].op = "populateDatabase"
  /\ clients[c].at \in {"categories", "tags", "authors", "post", "postTags"}
  /\ \E add \in {NewRows(c, clients[c].at, clients[c].k)} :
       /\ InsertProceeds(c, add)
       /\ IF InsertRejected(db, add)
          THEN /\ clients' = [clients EXCEPT ![c] = Thrown(c)]
               /\ db' = db
          ELSE /\ db' = With(db, add)
               /\ clients' =
                    [clients EXCEPT
                       ![c].at = AfterCreate(clients[c].at, clients[c].k).at,
                       ![c].k = AfterCreate(clients[c].at, clients[c].k).k]
  /\ lastRead' = NoRead
  /\ UNCHANGED <<handlerVars, factsVars>>

\* one count() of the $transaction of five counts: each statement reads the
\* rows committed when it runs
CountStep(c) ==
  /\ clients[c].at = "count"
  /\ clients' =
       [clients EXCEPT ![c] =
          [clients[c] EXCEPT
             !.counts = Append(@, Count(db, CountOrder[clients[c].k])),
             !.k = IF clients[c].k < Len(CountOrder) THEN @ + 1 ELSE 1,
             !.at = IF clients[c].k < Len(CountOrder) THEN "count"
                    ELSE IF clients[c].op = "populateDatabase" THEN "done"
                    ELSE "delete"]]
  /\ lastRead' = NoRead
  /\ UNCHANGED <<db, handlerVars, factsVars>>

\* clearDatabase: one deleteMany of the $transaction of five deletes; the
\* rows it removes stay committed and locked until the last one, with which
\* the transaction commits
ClearDelete(c) ==
  /\ clients[c].op = "clearDatabase" /\ clients[c].at = "delete"
  /\ DeleteProceeds(c, DeleteOrder[clients[c].k])
  /\ IF Restricted(VisibleTo(c), DeleteOrder[clients[c].k])
     THEN /\ clients' = [clients EXCEPT ![c] = Thrown(c)]
          /\ db' = db
     ELSE \E pending \in {With(clients[c].pending,
                               Deleted(VisibleTo(c), DeleteOrder[clients[c].k]))} :
            IF clients[c].k < Len(DeleteOrder)
            THEN /\ clients' = [clients EXCEPT ![c].pending = pending, ![c].k = @ + 1]
                 /\ db' = db
            ELSE /\ clients' = [clients EXCEPT ![c].pending = EmptyDb,
                                               ![c].at = "done"]
                 /\ db' = Without(db, pending)
  /\ lastRead' = NoRead
  /\ UNCHANGED <<handlerVars, factsVars>>

\* The awaited call of a mutation rejects for a reason outside the tables
\* (the connection is lost, the statement times out).
CallRejects(c) ==
  /\ InFlight(c)
  /\ clients' = [clients EXCEPT ![c] = Thrown(c)]
  /\ lastRead' = NoRead
  /\ UNCHANGED <<db, handlerVars, factsVars>>

\* The caller has received the result or the error of the mutation.
Settled(c) ==
  /\ clients[c].at \in {"done", "failed"}
  /\ clients' = [clients EXCEPT ![c] = IdleClient]
  /\ lastRead' = NoRead
  /\ UNCHANGED <<db, handlerVars, factsVars>>

\* rows of another origin than the seed data
OtherDb ==
  [authors |-> {[id |-> Id(0, 9), name |-> "Zed", email |-> "zed@example.com"]},
   categories |-> {[id |-> Id(0, 9), slug |-> "misc"]},
   tags |-> {[id |-> Id(0, 19), slug |-> "misc"]},
   posts |-> {PostRow(0, 9, Id(0, 9), Id(0, 9), TRUE, NotNull(1), 3)},
   postTags |-> {PostTagRow(Id(0, 9), Id(0, 19))}]

\* the mutations and the read procedures on one database
DbInit ==
  /\ pc = "idle"
  /\ proc = "getBlogAnalytics"
  /\ input = NoInput
  /\ queries = <<>>
  /\ response = NoResponse
  /\ result = NoResult
  /\ logged = NoError
  /\ db \in {EmptyDb, SeedDb(0), OtherDb}
  /\ lastRead = NoRead
  /\ clients = [c \in Clients |-> IdleClient]
  /\ FactsIdle

\* no client has an invocation in flight or a result to receive
Quiet == \A c \in Clients : clients[c].at = "idle"

\* one mutation at a time, each client invoking again and again, and the
\* read procedures at any moment
DbNext ==
  \/ Quiet /\ StartPopulate
  \/ Quiet /\ StartClear
  \/ \E c \in Clients : PopulateDelete(c)
  \/ \E c \in Clients : PopulateCreate(c)
  \/ \E c \in Clients : CountStep(c)
  \/ \E c \in Clients : ClearDelete(c)
  \/ \E c \in Clients : CallRejects(c)
  \/ \E c \in Clients : Settled(c)
  \/ RunBlogAnalytics
  \/ RunTopPostsByCategory
  \/ RunAllPosts

SpecDb == DbInit /\ [][DbNext]_vars

\* the mutations of the clients in flight at once, one invocation per client
ConcurrentNext ==
  \/ StartPopulate
  \/ StartClear
  \/ \E c \in Clients : PopulateDelete(c)
  \/ \E c \in Clients : PopulateCreate(c)
  \/ \E c \in Clients : CountStep(c)
  \/ \E c \in Clients : ClearDelete(c)
  \/ \E c \in Clients : CallRejects(c)

SpecConcurrent == DbInit /\ [][ConcurrentNext]_vars

\* ------------------------------------------------- claims on the mutations
\* the results the read procedure may return on the tables d
ReadResults(d, p, arg) ==
  CASE p = "get_blog_analytics" -> get_blog_analytics(d)
    [] p = "get_top_posts_by_category" -> get_top_posts_by_category(d, arg)
    [] p = "getAllPosts" -> getAllPosts(d)

\* C13: a step in which getBlogAnalytics, getTopPostsByCategory or getAllPosts
\* queries the database changes no table and nothing of any invocation, and
\* what it returns is a result of the procedure on its argument and the
\* rows committed at that step, whatever mutation is in flight.
C13_ReadsChangeNothing ==
  [][(lastRead' # NoRead /\ lastRead' # lastRead) =>
       /\ db' = db
       /\ clients' = clients
       /\ handlerVars' = handlerVars
       /\ lastRead'.rows \in ReadResults(db, lastRead'.proc, lastRead'.arg)]_vars

\* a read procedure returned rows while a populateDatabase is between two of
\* its creates
C13_Witness ==
  /\ lastRead # NoRead /\ lastRead.rows # <<>>
  /\ \E c \in Clients : clients[c].at = "post" /\ clients[c].k > 1

\* C19: when a populateDatabase that no other mutation overlapped has
\* succeeded, the tables hold exactly the seed data it created (4 authors, 4
\* categories, 10 tags, 8 posts, 17 post-tag links, no row from before) and
\* it returns these counts, whatever the tables held before, the rows of an
\* earlier populateDatabase included.
C19_PopulateLeavesSeedData ==
  \A c \in Clients :
    (/\ clients[c].op = "populateDatabase" /\ clients[c].at = "done"
     /\ clients[c].undisturbed) =>
      /\ db = SeedDb(c)
      /\ Cardinality(db.authors) = 4 /\ Cardinality(db.categories) = 4
      /\ Cardinality(db.tags) = 10 /\ Cardinality(db.posts) = 8
      /\ Cardinality(db.postTags) = 17
      /\ clients[c].counts = <<4, 4, 10, 8, 17>>

\* a populateDatabase succeeded that started on the rows an earlier
\* populateDatabase had left
C19_Witness ==
  \E c \in Clients :
    /\ clients[c].op = "populateDatabase" /\ clients[c].at = "done"
    /\ clients[c].undisturbed /\ clients[c].again

\* no row that the statements of client c see refers to a row of the table
NotReferenced(c, table) ==
  CASE table = "posts" ->
         \A l \in VisibleTo(c).postTags : l.postId \notin Ids(VisibleTo(c).posts)
    [] table = "authors" ->
         \A p \in VisibleTo(c).posts : p.authorId \notin Ids(VisibleTo(c).authors)
    [] table = "categories" ->
         \A p \in VisibleTo(c).posts : p.categoryId \notin Ids(VisibleTo(c).categories)
    [] table = "tags" ->
         \A l \in VisibleTo(c).postTags : l.tagId \notin Ids(VisibleTo(c).tags)
    [] OTHER -> TRUE

\* client c executes the deleteMany it is at
DeleteExecutes(c) ==
  /\ clients[c].at = "delete"
  /\ clients'[c] # clients[c]
  /\ clients'[c].at # "failed"

\* C20 (as claimed): the deletes of clearDatabase and of the initial clear of
\* populateDatabase come in the order post_tags, posts, authors, categories,
\* tags; no delete removes a row that an existing row still references; and
\* when clearDatabase succeeds all five tables are empty.
C20_ClearRespectsForeignKeys ==
  [][\A c \in Clients :
       /\ DeleteExecutes(c) =>
            /\ DeleteOrder = <<"postTags", "posts", "authors", "categories", "tags">>
            /\ NotReferenced(c, DeleteOrder[clients[c].k])
       /\ (/\ clients[c].op = "clearDatabase"
           /\ clients[c].at # "done" /\ clients'[c].at = "done") =>
            db' = EmptyDb]_vars

\* every client has invoked a mutation and received its result
AllSucceeded == \A c \in Clients : clients[c].at = "done"

\* the tables are empty or hold one complete set of seed rows
EmptyOrSeedData == db = EmptyDb \/ \E w \in 0..MaxClients : db = SeedDb(w)

\* C25 (as claimed, for invocations that all succeed): once the concurrent
\* populateDatabase and clearDatabase invocations have all returned, the
\* tables are empty or hold exactly the seed data (4 authors, 4 categories,
\* 10 tags, 8 posts, 17 post-tag links).
C25_EmptyOrSeedAfterRaces == AllSucceeded => EmptyOrSeedData

\* C26 (as claimed, for a populateDatabase that started on the seed data
\* and that no other mutation overlapped): when the invocation throws
\* 'Failed to populate database', the tables hold the rows they held when it
\* started.
C26_PopulateFailsWithoutTrace ==
  \A c \in Clients :
    (/\ clients[c].op = "populateDatabase" /\ clients[c].at = "failed"
     /\ clients[c].undisturbed /\ clients[c].again) =>
      \E w \in 0..MaxClients : db = SeedDb(w)

\* C27 (as claimed): a clearDatabase changes the tables in one step only, the
\* step with which it succeeds, and that step leaves all five tables empty;
\* a clearDatabase that fails has changed no table.
C27_ClearIsAtomic ==
  [][\A c \in Clients :
       (clients[c].op = "clearDatabase" /\ clients'[c] # clients[c]) =>
         IF clients[c].at # "done" /\ clients'[c].at = "done"
         THEN db' = EmptyDb
         ELSE db' = db]_vars

\* C28 (as claimed): the deletedCounts a successful clearDatabase returns
\* are, table by table, the numbers of rows that the invocation removed.
C28_DeletedCountsAreExact ==
  [][\A c \in Clients :
       (/\ clients[c].op = "clearDatabase"
        /\ clients[c].at # "done" /\ clients'[c].at = "done") =>
         \A i \in 1..Len(CountOrder) :
           clients'[c].counts[i] =
             Count(db, CountOrder[i]) - Count(db', CountOrder[i])]_vars

\* =========================================================== the facts router
\* the sample sentences, each by its opening words
dummyFacts ==
  <<"Octopuses have three hearts", "A shrimp's heart", "Dolphins have names",
    "Sharks are older than trees", "There's a species of jellyfish",
    "The Pacific Ocean", "Mantis shrimp", "Blue whales", "Sea otters",
    "Starfish", "Electric eels", "The giant Pacific octopus",
    "Wombat poop", "Polar bear skin", "Cats can't taste sweetness",
    "Elephants are afraid of bees", "A group of flamingos", "Penguins",
    "The longest recorded flight", "Butterflies",
    "Venus rotates backwards", "A day on Venus", "A bolt of lightning",
    "The human brain", "There are more possible games of chess",
    "Honey never spoils", "Bananas are berries",
    "The shortest war", "Cleopatra", "The Great Wall of China">>

\* Embeddings are vectors with integer components and an integer length, so
\* that every cosine is a fraction with the denominator SimilarityUnit.
\* text-embedding-3-small returns vectors of one length, EmbeddingLength;
\* rows of another origin may hold vectors of another length, here 5.
EmbeddingLength == 65
SimilarityUnit == EmbeddingLength * EmbeddingLength

\* the embedding of each sample sentence, by its position in dummyFacts
FactEmbeddings ==
  <<<<63, 16>>, <<60, 25>>, <<56, 33>>, <<52, 39>>, <<39, 52>>, <<33, 56>>,
    <<25, 60>>, <<16, 63>>, <<0, 65>>, <<-16, 63>>, <<-25, 60>>, <<-33, 56>>,
    <<-39, 52>>, <<-52, 39>>, <<-56, 33>>, <<-60, 25>>, <<-63, 16>>, <<-65, 0>>,
    <<-63, -16>>, <<-60, -25>>,
    <<-56, -33>>, <<-52, -39>>, <<-39, -52>>, <<-33, -56>>, <<-25, -60>>,
    <<-16, -63>>, <<0, -65>>,
    <<16, -63>>, <<25, -60>>, <<33, -56>>>>

\* the search texts a caller sends, the empty text among them
SearchTexts == {"", "sea animals", "planets"}

\* what openai.embeddings.create answers for a text (response.data[0].embedding)
Embedding(text) ==
  CASE text = "sea animals" -> <<56, 33>>
    [] text = "planets" -> <<-33, -56>>
    [] \E k \in 1..Len(dummyFacts) : dummyFacts[k] = text ->
         FactEmbeddings[CHOOSE k \in 1..Len(dummyFacts) : dummyFacts[k] = text]
    [] OTHER -> <<65, 0>>

\* ------------------------------------------------------------- pgvector
Dot(a, b) == a[1] * b[1] + a[2] * b[2]
\* the length of a vector whose length is an integer
Norm(a) == CHOOSE n \in 0..EmbeddingLength : n * n = Dot(a, a)

\* a <=> b: the cosine distance 1 - (a . b) / (|a| |b|), in SimilarityUnit-ths
CosineDistance(a, b) ==
  SimilarityUnit - (SimilarityUnit * Dot(a, b)) \div (Norm(a) * Norm(b))

\* the text of a vector as the router writes it, `[${embedding.join(',')}]`
\* (the brackets around the joined components), and the cast ::vector,
\* which rejects a vector without components
EmbeddingString(embedding) == <<"[", embedding, "]">>
CastVectorFails(embeddingString) == embeddingString[2] = <<>>
VectorOf(embeddingString) == embeddingString[2]

\* a row of facts: id, content, embedding, "createdAt" (the position of the
\* insert in time; rows found at the start have 0)
FactRow(owner, k, content, embedding) ==
  [id |-> Id(owner, k), content |-> content, embedding |-> embedding,
   createdAt |-> k]

\* SELECT id, content, (embedding <=> q) * -1 + 1 as similarity, "createdAt"
SimilarRow(f, q) ==
  [id |-> f.id, content |-> f.content,
   similarity |-> CosineDistance(f.embedding, q) * (-1) + SimilarityUnit,
   createdAt |-> f.createdAt]

\* ... FROM facts ORDER BY embedding <=> q LIMIT limit: the possible results
\* (rows at the same distance come in any order).  D pairs each row with
\* its sort key.
SearchQueryFarthestFirst(F, q, limit) ==
  UNION {{Limit([i \in 1..Len(order) |-> SimilarRow(order[i][2], q)], limit) :
            order \in OrderByDesc(D, [d \in D |-> <<d[1]>>])} :
         D \in {{<<CosineDistance(f.embedding, q), f>> : f \in F}}}

SearchQuery(F, q, limit) ==
  UNION {{Limit([i \in 1..Len(order) |-> SimilarRow(order[i][2], q)], limit) :
            order \in OrderByDesc(D, [d \in D |-> <<0 - d[1]>>])} :
         D \in {{<<CosineDistance(f.embedding, q), f>> : f \in F}}}

\* ------------------------------------------------ inputs of searchSimilar
MinLimit == 1
MaxLimit == 20
DefaultLimit == 5

\* what callers send: the page's { query, limit: 10 }, other limits, no
\* limit, no query
SearchInputs ==
  {[query |-> q, limit |-> l] : q \in SearchTexts, l \in {0, 1, 10, 20, 21}}
  \cup {[query |-> q] : q \in SearchTexts}
  \cup {[limit |-> 10]}

\* z.object({ query: z.string().min(1),
\*            limit: z.number().min(1).max(20).default(5) })
SearchInputIssuesUnbounded(in) ==
  {c \in {"query"} : c \notin DOMAIN in \/ in[c] = ""}
  \cup {c \in {"limit"} : c \in DOMAIN in /\ in[c] < MinLimit}

SearchInputIssues(in) ==
  {c \in {"query"} : c \notin DOMAIN in \/ in[c] = ""}
  \cup {c \in {"limit"} : c \in DOMAIN in /\ (in[c] < MinLimit \/ in[c] > MaxLimit)}

SearchInputValue(in) ==
  [query |-> in.query,
   limit |-> IF "limit" \in DOMAIN in THEN in.limit ELSE DefaultLimit]

\* ------------------------------------------------------ the invocations
\* the tag of the ids an invocation generates, the least that no row
\* carries: gen_random_uuid() gives ids that no row has
FreshOwner ==
  CHOOSE o \in 1..(Cardinality(facts) + 1) :
    \A w \in 1..o : (w = o) = (\A f \in facts : f.id[1] # w)

\* A facts.* procedure is invoked.  searchSimilar has an input parser, which
\* rejects the request before the resolver runs.
FactsInvoke(op, in) ==
  /\ factsCall.at = "idle"
  /\ factsCall' =
       IF op = "searchSimilar" /\ SearchInputIssues(in) # {}
       THEN [NoFactsCall EXCEPT !.op = op, !.at = "rejected", !.sent = in]
       ELSE [NoFactsCall EXCEPT
               !.op = op,
               !.sent = IF op = "searchSimilar" THEN in ELSE @,
               !.at = IF op = "searchSimilar" THEN "embed" ELSE "delete",
               !.in = IF op = "searchSimilar" THEN SearchInputValue(in) ELSE @,
               !.owner = FreshOwner]
  /\ UNCHANGED <<facts, env, handlerVars, dbVars>>

InvokePopulate == FactsInvoke("populateDatabase", [query |-> ""])
InvokeClear == FactsInvoke("clearDatabase", [query |-> ""])
InvokeSearch == \E in \in SearchInputs : FactsInvoke("searchSimilar", in)

\* (variant: populateDatabase deletes the sample sentences only)
DeleteSampleFacts ==
  /\ factsCall.at = "delete"
  /\ facts' = IF factsCall.op = "populateDatabase"
              THEN {f \in facts : \A k \in 1..Len(dummyFacts) : dummyFacts[k] # f.content}
              ELSE {}
  /\ factsCall' =
       [factsCall EXCEPT
          !.statements = @ + 1,
          !.at = IF factsCall.op = "populateDatabase" THEN "embed" ELSE "done",
          !.k = IF factsCall.op = "populateDatabase" THEN 1 ELSE 0]
  /\ UNCHANGED <<env, handlerVars, dbVars>>

\* await db.$executeRaw`DELETE FROM facts`
DeleteFacts ==
  /\ factsCall.at = "delete"
  /\ facts' = {}
  /\ factsCall' =
       [factsCall EXCEPT
          !.statements = @ + 1,
          !.at = IF factsCall.op = "populateDatabase" THEN "embed" ELSE "done",
          !.k = IF factsCall.op = "populateDatabase" THEN 1 ELSE 0]
  /\ UNCHANGED <<env, handlerVars, dbVars>>

\* the text whose embedding the invocation asks for
EmbeddedText ==
  IF factsCall.op = "populateDatabase" THEN dummyFacts[factsCall.k]
  ELSE factsCall.in.query

\* generateEmbedding: openai.embeddings.create answers; the embedding is
\* response.data[0]?.embedding ?? []
EmbeddingArrives(data) ==
  /\ factsCall.at = "embed"
  /\ Truthy(env.OPEN_AI_KEY)
  /\ factsCall' =
       [factsCall EXCEPT
          !.requests = @ + 1,
          !.embedding = IF data = <<>> THEN <<>> ELSE data[1],
          !.at = IF factsCall.op = "populateDatabase" THEN "insert" ELSE "query"]
  /\ UNCHANGED <<facts, env, handlerVars, dbVars>>

EmbeddingReturns == EmbeddingArrives(<<Embedding(EmbeddedText)>>)
EmbeddingReturnsNoData == EmbeddingArrives(<<>>)

\* generateEmbedding: the request fails (no key, no network, a rate limit);
\* 'Failed to generate embedding' is thrown and caught by the procedure
EmbeddingFails ==
  /\ factsCall.at = "embed"
  /\ factsCall' = [factsCall EXCEPT !.requests = @ + 1, !.at = "failed"]
  /\ UNCHANGED <<facts, env, handlerVars, dbVars>>

\* INSERT INTO facts (id, content, embedding, "createdAt", "updatedAt")
\* VALUES (gen_random_uuid()::text, ${fact}, ${embeddingString}::vector, ...)
InsertFact ==
  /\ factsCall.at = "insert"
  /\ \E embeddingString \in {EmbeddingString(factsCall.embedding)} :
       IF CastVectorFails(embeddingString)
       THEN /\ facts' = facts
            /\ factsCall' = [factsCall EXCEPT !.statements = @ + 1, !.at = "failed"]
       ELSE /\ facts' = facts \cup
                 {FactRow(factsCall.owner, factsCall.k, dummyFacts[factsCall.k],
                          VectorOf(embeddingString))}
            /\ factsCall' =
                 [factsCall EXCEPT
                    !.statements = @ + 1,
                    !.at = IF factsCall.k < Len(dummyFacts) THEN "embed" ELSE "count",
                    !.k = IF factsCall.k < Len(dummyFacts) THEN @ + 1 ELSE @]
  /\ UNCHANGED <<env, handlerVars, dbVars>>

\* const count = await db.fact.count(); return { success: true, count,
\* usingRealEmbeddings: !!process.env.OPENAI_API_KEY }
CountFacts ==
  /\ factsCall.at = "count"
  /\ factsCall' =
       [factsCall EXCEPT
          !.statements = @ + 1,
          !.at = "done",
          !.out = [@ EXCEPT !.count = Cardinality(facts),
                            !.usingRealEmbeddings = Truthy(env.OPENAI_API_KEY)]]
  /\ UNCHANGED <<facts, env, handlerVars, dbVars>>

\* const results = await db.$queryRaw`SELECT ...`; return { results,
\* usingRealEmbeddings: !!env.OPEN_AI_KEY }
SearchFacts ==
  /\ factsCall.at = "query"
  /\ \E embeddingString \in {EmbeddingString(factsCall.embedding)} :
       IF CastVectorFails(embeddingString)
       THEN factsCall' = [factsCall EXCEPT !.statements = @ + 1, !.at = "failed"]
       ELSE \E results \in SearchQuery(facts, VectorOf(embeddingString),
                                       factsCall.in.limit) :
              factsCall' =
                [factsCall EXCEPT
                   !.statements = @ + 1,
                   !.at = "done",
                   !.out = [@ EXCEPT !.results = results,
                                     !.usingRealEmbeddings = Truthy(env.OPEN_AI_KEY)]]
  /\ UNCHANGED <<facts, env, handlerVars, dbVars>>

\* The awaited database call rejects for a reason outside the table (the
\* connection is lost); the procedure throws 'Failed to ...'.
StatementFails ==
  /\ factsCall.at \in {"delete", "insert", "count", "query"}
  /\ factsCall' = [factsCall EXCEPT !.statements = @ + 1, !.at = "failed"]
  /\ UNCHANGED <<facts, env, handlerVars, dbVars>>

\* The caller has received the result or the error.
FactsReturn ==
  /\ factsCall.at \in {"done", "failed", "rejected"}
  /\ factsCall' = NoFactsCall
  /\ UNCHANGED <<facts, env, handlerVars, dbVars>>

\* facts of another origin than dummyFacts: two with one content and one
\* embedding, one that points the other way, one of the length of an OpenAI
\* embedding
OtherFacts ==
  {FactRow(0, 1, "old", <<3, 4>>), FactRow(0, 2, "old", <<3, 4>>),
   FactRow(0, 3, "older", <<-4, -3>>), FactRow(0, 4, "oldest", <<33, 56>>)}

\* the keys an environment may set
Environments ==
  [OPEN_AI_KEY : {Undefined, Str(<<"s", "k">>)},
   OPENAI_API_KEY : {Undefined, Str(<<"s", "k">>)}]

FactsInit ==
  /\ pc = "idle"
  /\ proc = "getBlogAnalytics"
  /\ input = NoInput
  /\ queries = <<>>
  /\ response = NoResponse
  /\ result = NoResult
  /\ logged = NoError
  /\ DbIdle
  /\ facts \in {{}, OtherFacts}
  /\ factsCall = NoFactsCall
  /\ env \in Environments

\* one facts.* invocation at a time, again and again
FactsNext ==
  \/ InvokePopulate
  \/ InvokeClear
  \/ InvokeSearch
  \/ DeleteFacts
  \/ EmbeddingReturns
  \/ EmbeddingReturnsNoData
  \/ EmbeddingFails
  \/ InsertFact
  \/ CountFacts
  \/ SearchFacts
  \/ StatementFails
  \/ FactsReturn

SpecFacts == FactsInit /\ [][FactsNext]_vars

\* ------------------------------------------------ claims on the facts router
\* a searchSimilar / populateDatabase invocation has returned to its caller
SearchDone == factsCall.op = "searchSimilar" /\ factsCall.at = "done"
PopulateDone == factsCall.op = "populateDatabase" /\ factsCall.at = "done"

\* the fact a result row shows, and the cosine similarity of two vectors
\* times SimilarityUnit as s: s |a| |b| = SimilarityUnit (a . b)
FactOf(r) == CHOOSE f \in facts : f.id = r.id
IsCosineSimilarity(s, a, b) == s * Norm(a) * Norm(b) = SimilarityUnit * Dot(a, b)

\* C21: a searchSimilar that succeeds returns min(limit, number of facts)
\* rows, each showing another fact with its content and, as similarity, the
\* cosine similarity (1 - cosine distance) of its embedding and the query's
\* embedding; no fact left out is more similar than a fact returned; and the
\* rows come in non-increasing similarity.
C21_NearestFirst ==
  SearchDone =>
    LET results == factsCall.out.results
        q == Embedding(factsCall.in.query)
        shown == {results[i].id : i \in 1..Len(results)}
    IN /\ Len(results) =
            IF factsCall.in.limit < Cardinality(facts) THEN factsCall.in.limit
            ELSE Cardinality(facts)
       /\ Cardinality(shown) = Len(results)
       /\ \A i \in 1..Len(results) :
            /\ \E f \in facts : f.id = results[i].id
            /\ results[i].content = FactOf(results[i]).content
            /\ IsCosineSimilarity(results[i].similarity,
                                  FactOf(results[i]).embedding, q)
       /\ \A i \in 1..Len(results) : \A f \in facts :
            f.id \notin shown =>
              Dot(f.embedding, q) * Norm(FactOf(results[i]).embedding)
                <= Dot(FactOf(results[i]).embedding, q) * Norm(f.embedding)
       /\ \A i, j \in 1..Len(results) :
            i < j => results[i].similarity >= results[j].similarity

\* a search with the limit 20 on the 30 sample facts returned 20 rows, the
\* first more similar than the last
C21_Witness ==
  /\ SearchDone
  /\ Cardinality(facts) = Len(dummyFacts)
  /\ factsCall.in.limit = MaxLimit
  /\ Len(factsCall.out.results) = MaxLimit
  /\ factsCall.out.results[1].similarity > factsCall.out.results[MaxLimit].similarity

\* ======================================================= the earlier blog router
\* the schemas of the earlier router, used for the driver's rows and as
\* .output(...)
BlogAnalyticsSchema ==
  [author_name |-> "string", author_email |-> "string",
   total_posts |-> "number", published_posts |-> "number",
   total_views |-> "number", avg_views_per_post |-> "number",
   most_popular_post_title |-> "nullable_string",
   most_popular_post_views |-> "nullable_number",
   categories_used |-> "number", total_tags |-> "number",
   first_post_date |-> "nullable_date", last_post_date |-> "nullable_date"]

TopPostSchema ==
  [post_title |-> "string", author_name |-> "string", view_count |-> "number",
   published_at |-> "date", tag_count |-> "number"]

EarlierSchema(p) ==
  IF p = "getBlogAnalytics" THEN BlogAnalyticsSchema ELSE TopPostSchema

\* try { return z.array(Schema).parse(rows) } catch ..., then
\* .output(z.array(Schema)) on what the resolver returned
EarlierResolve(p, resp) ==
  IF ~resp.ok THEN CatchBlock(p, resp.error)
  ELSE IF ZodArrayIssues(EarlierSchema(p), resp.rows) # {}
  THEN CatchBlock(p, ZodError(ZodArrayIssues(EarlierSchema(p), resp.rows)))
  ELSE IF ZodArrayIssues(EarlierSchema(p),
                         ZodArrayValue(EarlierSchema(p), resp.rows)) # {}
  THEN Outcome("error", <<>>,
               Err("TRPCError", "Output validation failed", {}, "ZodError"),
               NoError, FALSE)
  ELSE Outcome("ok", ZodArrayValue(EarlierSchema(p), resp.rows), NoError, NoError,
               FALSE)

\* The awaited query of the earlier router settles with resp.
EarlierSettle(resp) ==
  \E o \in {EarlierResolve(proc, resp)} :
  /\ response' = resp
  /\ logged' = o.logged
  /\ pc' = "done"
  /\ result' = [status |-> o.status, rows |-> o.rows, error |-> o.error]
  /\ UNCHANGED <<proc, input, queries>>
  /\ UNCHANGED <<dbVars, factsVars>>

EarlierDbReturns ==
  /\ pc = "awaiting"
  /\ \E n \in 0..MaxRows :
       \E g \in [1..n -> GoodRows(proc)] :
         \E D \in {S \in SUBSET (1..n) : Cardinality(S) <= MaxDeviantRows} :
           \E dev \in [D -> Deviations(proc)] :
             EarlierSettle([ok |-> TRUE,
                            rows |-> [i \in 1..n |->
                                       IF i \in D THEN Deviate(g[i], dev[i]) ELSE g[i]],
                            error |-> NoError])

EarlierDbFails ==
  /\ pc = "awaiting"
  /\ \E k \in DbFailures :
       EarlierSettle([ok |-> FALSE, rows |-> <<>>, error |-> PrismaError(k)])

EarlierNext == Invoke \/ EarlierDbReturns \/ EarlierDbFails \/ Return

SpecEarlier == Init /\ [][EarlierNext]_vars

\* row i is a row as the stored procedures produce it, with bigint values
\* in its count columns
CountsAreBigint(i) ==
  \E g \in GoodRows(proc) :
    /\ DOMAIN RawRow(i) = DOMAIN g
    /\ \A c \in DOMAIN g :
         IF c \in BigintColumns(proc) THEN RawRow(i)[c].t = "bigint"
         ELSE RawRow(i)[c] = g[c]

\* C22 (as claimed, for the earlier router): when the driver returns rows
\* whose count columns are bigint values, the invocation succeeds and returns
\* one row per raw row with numbers in those columns.
C22_BigintBecomesNumber ==
  (SettledOnRows /\ \A i \in 1..Len(response.rows) : CountsAreBigint(i)) =>
    /\ result.status = "ok"
    /\ Len(result.rows) = Len(response.rows)
    /\ \A i \in 1..Len(result.rows) : \A c \in BigintColumns(proc) :
         result.rows[i][c].t = "number"

\* C23: when a populateDatabase of the facts router has succeeded, the table
\* holds exactly one fact per entry of dummyFacts, 30 in all, each inserted
\* by this invocation (no row from before, no second row for a sentence),
\* and the invocation returns count = 30.
C23_PopulateLeavesSampleFacts ==
  PopulateDone =>
    /\ Cardinality(facts) = 30
    /\ Len(dummyFacts) = 30
    /\ \A k \in 1..Len(dummyFacts) :
         Cardinality({f \in facts : f.content = dummyFacts[k]}) = 1
    /\ \A f \in facts : f.id[1] = factsCall.owner
    /\ factsCall.out.count = 30

\* a populateDatabase succeeded on a table that held the facts of an earlier
\* populateDatabase
C23_Witness ==
  /\ PopulateDone
  /\ factsCall.owner = 2
  /\ factsCall.out.count = Len(dummyFacts)

\* C24: a searchSimilar whose query has length 0, or whose limit is below 1
\* or above 20, is rejected without an embedding request and without a
\* database statement; a search without a limit runs with the limit 5; and
\* a successful search returns at most 20 rows.
C24_ValidatedBeforeWork ==
  (factsCall.op = "searchSimilar" /\ factsCall.at # "idle") =>
    LET sent == factsCall.sent
    IN /\ (\/ "query" \in DOMAIN sent /\ sent.query = ""
           \/ "limit" \in DOMAIN sent /\ (sent.limit < 1 \/ sent.limit > 20)) =>
            /\ factsCall.at = "rejected"
            /\ factsCall.requests = 0
            /\ factsCall.statements = 0
       /\ (factsCall.at # "rejected" /\ "limit" \notin DOMAIN sent) =>
            factsCall.in.limit = 5
       /\ factsCall.at = "done" => Len(factsCall.out.results) <= 20

\* a search for a text with the limit 21 was rejected while the table held
\* the 30 sample facts
C24_Witness ==
  /\ factsCall.op = "searchSimilar" /\ factsCall.at = "rejected"
  /\ "limit" \in DOMAIN factsCall.sent /\ factsCall.sent.limit = 21
  /\ factsCall.sent.query # ""
  /\ factsCall.requests = 0 /\ factsCall.statements = 0
  /\ Cardinality(facts) = Len(dummyFacts)

\* the embeddings were produced with the key the OpenAI client is
\* constructed with
MadeWithConfiguredKey == Truthy(env.OPEN_AI_KEY)

\* C30 (as claimed): the usingRealEmbeddings that populateDatabase and
\* searchSimilar return is true exactly when the embeddings were produced
\* with the configured key env.OPEN_AI_KEY (so that both report the same
\* value in one environment).
C30_FlagIsTruthful ==
  (PopulateDone \/ SearchDone) =>
    factsCall.out.usingRealEmbeddings = MadeWithConfiguredKey

====
